---- MODULE Spec2Model ----
(***************************************************************************)
(* Heart-rate estimation engine of the PPG server.                         *)
(*                                                                         *)
(* Part I  models the engine with contact hysteresis, the 1000-sample      *)
(*         window and the warm-up suppression (src/unnamed/part_000).      *)
(* Part II models the engine that heartRateProcessor.js exports and the    *)
(*         HTTP handlers of server.js that call it.                        *)
(*                                                                         *)
(* Numbers.  JavaScript numbers are doubles; the model uses integers and   *)
(* exact rationals.  Math.round is round-half-up; where the double result  *)
(* of the source expression lies just below a tie that the exact value     *)
(* hits, the source rounds down, and those inputs are listed explicitly    *)
(* (CorrectionTieDown, IntervalTieDown, SpanTieDown, WeightedTieDown).     *)
(*                                                                         *)
(* Time.  Date.now() is modelled by the variable clock, in milliseconds    *)
(* from an arbitrary positive origin; every call reads a later clock.      *)
(*                                                                         *)
(* Samples.  An array of samples is kept as the sequence of its runs:      *)
(* <<v, n>> stands for n consecutive samples of value v; no run is empty   *)
(* and neighbouring runs differ in value, so equal arrays have equal runs. *)
(* length, concat, slice and filter are computed on the runs.              *)
(*                                                                         *)
(* Signal path.  filterSignal and detectPeaks work on doubles over up to   *)
(* 1000 samples.  The samples of the model carry the level the contact     *)
(* detector looks at, not the pulse waveform riding on it; what the signal *)
(* path finds in the current window is the value of windowPeaks.  A call   *)
(* that takes samples in picks it among peak lists detectPeaks can return  *)
(* (strictly increasing indices in [2, len-2), at least minPeakDistance    *)
(* apart); a call that leaves the window as it is finds the same peaks.    *)
(*                                                                         *)
(* Functions.  detectPeaks, filterSignal, the rate methods and the zone    *)
(* table are in addition applied on their own to inputs drawn from bounded *)
(* sets (SpecFunctions): detectPeaks to integer signals, filterSignal in   *)
(* exact arithmetic to short windows, the rate methods to peak lists.      *)
(***************************************************************************)
EXTENDS Integers, Sequences, FiniteSets, TLC

(***************************************************************************)
(* Program constants                                                       *)
(***************************************************************************)
MAX_HISTORY == 4
MAX_BUFFER_SIZE == 1000
MIN_BATCHES_FOR_DISPLAY == 5
MIN_HIGH_ZONE_STREAK == 5
VIGOROUS_THRESHOLD == 130
INITIAL_PERIOD_DURATION == 30000
MIN_SAMPLES == 100
CONTACT_THRESHOLD == 18000
LOW_PERCENT == 70
MIN_WINDOW == 750
MIN_PEAK_DISTANCE == 38
MIN_RATE == 40
MAX_RATE == 200
FIRST_MINUTE == 60000
THIRD_MINUTE == 180000
HARD_CAP == 125
STEP_FIRST_MINUTE == 5
STEP_LATER == 8
MAX_SPREAD == 15

HR_ZONES ==
  << [name |-> "Rest",     upperLimit |-> 90,  colorCode |-> "#3498db"],
     [name |-> "Light",    upperLimit |-> 110, colorCode |-> "#2ecc71"],
     [name |-> "Moderate", upperLimit |-> 130, colorCode |-> "#f1c40f"],
     [name |-> "Vigorous", upperLimit |-> 150, colorCode |-> "#e67e22"],
     [name |-> "High",     upperLimit |-> 170, colorCode |-> "#e74c3c"],
     [name |-> "Maximum",  upperLimit |-> 240, colorCode |-> "#9b59b6"] >>

(***************************************************************************)
(* Bounds of the model                                                     *)
(***************************************************************************)
\* first value of the clock (Date.now() is never 0)
ClockOrigin == 1000
\* gaps between consecutive calls, besides none
ShortGap == 55000
LongGap == 60000
\* no call is made after this clock value: in the contact scenario, in the
\* warm-up scenario
MaxClock == 100000
MaxWarmupClock == 250000
\* at most this many batches are counted in one acquisition
MaxBatches == 6
\* the server scenario: requests made, time between two of them, last time
\* the interval timer fires
MaxRequests == 3
MaxStream == 7
MaxUploadRequests == 3
ServerGap == 1000
MaxServerClock == 1000000
\* the jump-limiting scenario: calls made
MaxCalculations == 4
\* functions applied on their own: the highest rate looked up in the zone
\* table, the length of the signals peaks are looked for in
MaxFinalRate == 241
SignalLength == 100
\* the steady scenario: time between two batches
BatchPeriod == 500
\* samples of a raw window given to filterSignal on its own
FilterLength == 8
\* times a function is applied to the same array
MaxRuns == 2
\* batches received up to which the initial correction is applied on its own
MaxCorrected == 11

(***************************************************************************)
(* Arithmetic helpers                                                      *)
(***************************************************************************)
Min2(a, b) == IF a <= b THEN a ELSE b
Max2(a, b) == IF a >= b THEN a ELSE b
Abs(x) == IF x < 0 THEN -x ELSE x

\* Math.round(n / d) for n >= 0, d > 0, computed exactly
RoundDiv(n, d) == (2 * n + d) \div (2 * d)

RECURSIVE SumSeq(_)
SumSeq(s) == IF s = <<>> THEN 0 ELSE Head(s) + SumSeq(Tail(s))

RECURSIVE InsertSorted(_, _)
InsertSorted(x, s) ==
  IF s = <<>> THEN <<x>>
  ELSE IF x <= Head(s) THEN <<x>> \o s
       ELSE <<Head(s)>> \o InsertSorted(x, Tail(s))

\* [...a].sort((a, b) => a - b)
RECURSIVE SortAsc(_)
SortAsc(s) == IF s = <<>> THEN <<>> ELSE InsertSorted(Head(s), SortAsc(Tail(s)))

\* a.slice(0, n)
Take(s, n) == SubSeq(s, 1, Min2(n, Len(s)))

(***************************************************************************)
(* Arrays of samples, kept as runs                                         *)
(***************************************************************************)
\* a.length
RECURSIVE lengthOf(_)
lengthOf(a) == IF a = <<>> THEN 0 ELSE Head(a)[2] + lengthOf(Tail(a))

\* a with n more samples of value v at its end
appendRun(a, v, n) ==
  IF n = 0 THEN a
  ELSE IF a # <<>> /\ a[Len(a)][1] = v
       THEN [a EXCEPT ![Len(a)] = <<v, a[Len(a)][2] + n>>]
       ELSE Append(a, <<v, n>>)

\* a.concat(b)
RECURSIVE concatSamples(_, _)
concatSamples(a, b) ==
  IF b = <<>> THEN a
  ELSE concatSamples(appendRun(a, Head(b)[1], Head(b)[2]), Tail(b))

\* a without its first k samples
RECURSIVE dropSamples(_, _)
dropSamples(a, k) ==
  IF k <= 0 \/ a = <<>> THEN a
  ELSE IF Head(a)[2] <= k THEN dropSamples(Tail(a), k - Head(a)[2])
       ELSE <<<<Head(a)[1], Head(a)[2] - k>>>> \o Tail(a)

\* a.slice(-n)
sliceLast(a, n) == dropSamples(a, lengthOf(a) - n)

\* the sample at index i (from 1) of a
RECURSIVE sampleAt(_, _)
sampleAt(a, i) ==
  IF i <= Head(a)[2] THEN Head(a)[1] ELSE sampleAt(Tail(a), i - Head(a)[2])

(***************************************************************************)
(* Part I.  Pure steps of processHeartRate (src/unnamed/part_000)          *)
(***************************************************************************)

\* ppgData.filter(val => val <= 18000).length
RECURSIVE belowThresholdCount(_)
belowThresholdCount(data) ==
  IF data = <<>> THEN 0
  ELSE (IF Head(data)[1] <= CONTACT_THRESHOLD THEN Head(data)[2] ELSE 0)
       + belowThresholdCount(Tail(data))

\* percentBelowThreshold < 70, with percent = (count / length) * 100
currentBatchHasFinger(data) ==
  belowThresholdCount(data) * 100 < LOW_PERCENT * lengthOf(data)

\* Math.max(...ppgData)
signalMax(data) ==
  CHOOSE m \in {data[i][1] : i \in DOMAIN data} : \A i \in DOMAIN data : data[i][1] <= m

\* intervals between consecutive peaks
peakIntervals(peaks) == [i \in 1..(Len(peaks) - 1) |-> peaks[i + 1] - peaks[i]]

\* the gaps of rates within 40..200 only
intervalInRateBounds(interval) == interval >= 45 /\ interval <= 225

intervalIsValid(interval) == interval >= 37 /\ interval <= 300

validIntervals(peaks) == SelectSeq(peakIntervals(peaks), intervalIsValid)

\* a rate outside [40, 200] is discarded
plausibleRate(heartRate) ==
  IF heartRate < MIN_RATE \/ heartRate > MAX_RATE THEN 0 ELSE heartRate

\* <<count, sum>> of valid intervals for which the double
\* 60 * 150 / (sum / count) lies just below the tie .5
IntervalTieDown == {<<17, 1200>>}

\* <<beats, span>> for which the double beats * 60 / (span / 150) lies just
\* below the tie .5
SpanTieDown == {<<7, 336>>, <<14, 672>>}

\* METHOD 1: Math.round(60 * 150 / avgInterval) over the valid intervals
intervalMethod(peaks) ==
  LET v == validIntervals(peaks)
      n == Len(v)
      sum == SumSeq(v)
      exact == RoundDiv(60 * 150 * n, sum)
  IN IF n > 0
     THEN plausibleRate(IF <<n, sum>> \in IntervalTieDown THEN exact - 1 ELSE exact)
     ELSE 0

\* METHOD 2: Math.round(beatCount * 60 / (sampleSpan / 150))
spanMethod(peaks) ==
  LET sampleSpan == peaks[Len(peaks)] - peaks[1]
      beatCount == Len(peaks) - 1
      exact == RoundDiv(beatCount * 60 * 150, sampleSpan)
  IN plausibleRate(IF <<beatCount, sampleSpan>> \in SpanTieDown
                   THEN exact - 1 ELSE exact)

\* METHOD 3: Math.round((peaks.length - 1) * 60 / (sampleBuffer.length / 150))
durationMethod(peaks, bufferLength) ==
  plausibleRate(RoundDiv((Len(peaks) - 1) * 60 * 150, bufferLength))

\* STEP 3: the rate of the window from its peaks, three methods in turn
calculateRateSpanOfThree(peaks, bufferLength) ==
  IF Len(peaks) >= 3
  THEN LET m1 == intervalMethod(peaks)
           m2 == IF m1 = 0 THEN spanMethod(peaks) ELSE m1
       IN IF m2 = 0 THEN durationMethod(peaks, bufferLength) ELSE m2
  ELSE 0

calculateRate(peaks, bufferLength) ==
  IF Len(peaks) >= 3
  THEN LET m1 == intervalMethod(peaks)
           m2 == IF m1 = 0 /\ Len(peaks) >= 4 THEN spanMethod(peaks) ELSE m1
       IN IF m2 = 0 THEN durationMethod(peaks, bufferLength) ELSE m2
  ELSE 0

\* <<heartRate, batchesReceived>> for which the double
\* heartRate * factor * correctionFactor lies just below the tie .5
CorrectionTieDown == {<<50, 8>>, <<100, 9>>, <<125, 8>>, <<150, 8>>}

\* the whole percentage, whatever the number of batches
correctionAmountNotFading(heartRate, batches) ==
  LET percent == IF heartRate >= VIGOROUS_THRESHOLD THEN 15
                 ELSE IF heartRate >= 110 THEN 10 ELSE 5
  IN RoundDiv(heartRate * percent, 100)

\* Math.round(heartRate * {0.15, 0.10, 0.05} * Math.max(0, 1 - batches / 10))
correctionAmount(heartRate, batches) ==
  LET percent == IF heartRate >= VIGOROUS_THRESHOLD THEN 15
                 ELSE IF heartRate >= 110 THEN 10 ELSE 5
      tenths == Max2(0, 10 - batches)
      exact == RoundDiv(heartRate * percent * tenths, 1000)
  IN IF <<heartRate, batches>> \in CorrectionTieDown THEN exact - 1 ELSE exact

\* initial correction of a positive rate during the first 10 batches
initialCorrection(heartRate, batches) ==
  IF heartRate > 0 /\ batches <= MIN_BATCHES_FOR_DISPLAY + 5
  THEN heartRate - correctionAmount(heartRate, batches)
  ELSE heartRate

\* recentHeartRates.unshift(heartRate), pop() past MAX_HISTORY
pushHistoryWithoutPop(recent, heartRate) ==
  IF heartRate > 0 THEN <<heartRate>> \o recent ELSE recent

pushHistory(recent, heartRate) ==
  IF heartRate > 0
  THEN LET r == <<heartRate>> \o recent
       IN IF Len(r) > MAX_HISTORY THEN SubSeq(r, 1, Len(r) - 1) ELSE r
  ELSE recent

\* the double loop: no two of the first up to 4 readings differ by more than 15
allWithinSpread(recent) ==
  \A i \in 1..Min2(4, Len(recent)) : \A j \in (i + 1)..Min2(4, Len(recent)) :
     Abs(recent[i] - recent[j]) <= MAX_SPREAD

\* Math.round(mean of recentHeartRates.slice(0, 4))
meanOfRecent(recent) ==
  LET v == Take(recent, 4) IN RoundDiv(SumSeq(v), Len(v))

\* sortedReadings[Math.floor(sortedReadings.length / 2)]
medianOfRecent(recent) == SortAsc(recent)[(Len(recent) \div 2) + 1]

\* <<median, heartRate>> for which the double median * 0.7 + heartRate * 0.3
\* lies just below the tie .5
WeightedTieDown ==
  { <<92, 197>>, <<96, 131>>, <<96, 141>>, <<96, 151>>, <<96, 161>>,
    <<96, 171>>, <<96, 181>>, <<96, 191>>, <<97, 192>>, <<101, 136>>,
    <<101, 146>>, <<101, 156>>, <<101, 166>>, <<101, 176>>, <<101, 186>>,
    <<106, 131>>, <<106, 141>>, <<106, 151>>, <<106, 161>>, <<106, 171>>,
    <<111, 136>>, <<111, 146>>, <<111, 156>>, <<111, 166>>, <<116, 131>>,
    <<116, 141>>, <<116, 151>>, <<121, 136>>, <<126, 131>> }

\* Math.min(median + 10, Math.round(median * 0.7 + heartRate * 0.3))
weightedTowardMedian(median, heartRate) ==
  LET exact == RoundDiv(7 * median + 3 * heartRate, 10)
  IN Min2(median + 10,
          IF <<median, heartRate>> \in WeightedTieDown THEN exact - 1 ELSE exact)

\* finalHeartRate before the warm-up restriction (the consensus step)
consensusWithoutMean(heartRate, recent, streak, firstDisplay, currentTime) ==
  IF Len(recent) >= 3 /\ allWithinSpread(recent) /\ heartRate = 0
  THEN recent[1] ELSE heartRate

consensusRate(heartRate, recent, streak, firstDisplay, currentTime) ==
  IF Len(recent) >= 3
  THEN IF ~allWithinSpread(recent)
       THEN LET isInInitialPeriod ==
                  firstDisplay > 0
                  /\ (currentTime - firstDisplay) < INITIAL_PERIOD_DURATION
            IN IF heartRate >= VIGOROUS_THRESHOLD
                  /\ (isInInitialPeriod \/ streak < MIN_HIGH_ZONE_STREAK)
               THEN IF medianOfRecent(recent) >= VIGOROUS_THRESHOLD
                    THEN meanOfRecent(recent)
                    ELSE weightedTowardMedian(medianOfRecent(recent), heartRate)
               ELSE meanOfRecent(recent)
       ELSE IF heartRate > 0 THEN heartRate ELSE recent[1]
  ELSE heartRate

\* firstDisplayTime > 0 ? currentTime - firstDisplayTime : 0
timeSinceFirstDisplay(firstDisplay, currentTime) ==
  IF firstDisplay > 0 THEN currentTime - firstDisplay ELSE 0

\* Math.max(5, Math.round(5 + (60000 - t) / 15000)) for 0 <= t < 60000
requiredStreak(t) ==
  Max2(MIN_HIGH_ZONE_STREAK, RoundDiv(5 * 15000 + (FIRST_MINUTE - t), 15000))

\* the restriction of vigorous readings during the first minutes
restrictWithoutCeiling(finalRate, streak, lastDisplayed, t) ==
  IF finalRate >= VIGOROUS_THRESHOLD /\ t < THIRD_MINUTE
     /\ streak < MIN_HIGH_ZONE_STREAK
     /\ lastDisplayed > 0 /\ lastDisplayed < finalRate
  THEN Min2(finalRate, lastDisplayed + STEP_LATER)
  ELSE finalRate

restrictAllThreeMinutes(finalRate, streak, lastDisplayed, t) ==
  IF finalRate >= VIGOROUS_THRESHOLD /\ t < THIRD_MINUTE
     /\ streak < requiredStreak(Min2(t, FIRST_MINUTE))
  THEN LET capped == Min2(finalRate, HARD_CAP)
       IN IF lastDisplayed > 0 /\ lastDisplayed < capped
          THEN Min2(capped, lastDisplayed + STEP_FIRST_MINUTE)
          ELSE capped
  ELSE finalRate

restrictHighRate(finalRate, streak, lastDisplayed, t) ==
  IF finalRate >= VIGOROUS_THRESHOLD
  THEN IF t < FIRST_MINUTE
       THEN IF streak < requiredStreak(t)
            THEN LET capped == Min2(finalRate, HARD_CAP)
                 IN IF lastDisplayed > 0 /\ lastDisplayed < capped
                    THEN Min2(capped, lastDisplayed + STEP_FIRST_MINUTE)
                    ELSE capped
            ELSE finalRate
       ELSE IF t < THIRD_MINUTE
            THEN IF streak < MIN_HIGH_ZONE_STREAK
                    /\ lastDisplayed > 0 /\ lastDisplayed < finalRate
                 THEN Min2(finalRate, lastDisplayed + STEP_LATER)
                 ELSE finalRate
            ELSE finalRate
  ELSE finalRate

\* isStable: at least 3 readings, none two of the first 4 more than 15 apart
stableWithoutMinimum(recent) == allWithinSpread(recent)

stableReading(recent) == Len(recent) >= 3 /\ allWithinSpread(recent)

\* the index of the first zone whose upperLimit is >= the rate, else Rest
zoneIndexBelowLimit(finalRate) ==
  IF finalRate > 0 /\ \E i \in DOMAIN HR_ZONES : finalRate < HR_ZONES[i].upperLimit
  THEN CHOOSE i \in DOMAIN HR_ZONES :
         /\ finalRate < HR_ZONES[i].upperLimit
         /\ \A j \in 1..(i - 1) : finalRate >= HR_ZONES[j].upperLimit
  ELSE 1

zoneIndex(finalRate) ==
  IF finalRate > 0 /\ \E i \in DOMAIN HR_ZONES : finalRate <= HR_ZONES[i].upperLimit
  THEN CHOOSE i \in DOMAIN HR_ZONES :
         /\ finalRate <= HR_ZONES[i].upperLimit
         /\ \A j \in 1..(i - 1) : finalRate > HR_ZONES[j].upperLimit
  ELSE 1

\* phase of a response, from the globals at the time of the call
phaseOfCounters(fingerDetected, batches, stable) ==
  IF batches < MIN_BATCHES_FOR_DISPLAY THEN "acquiring"
  ELSE IF stable THEN "tracking" ELSE "stabilizing"

phaseOfLateDisplay(fingerDetected, batches, stable) ==
  IF fingerDetected
  THEN IF batches <= MIN_BATCHES_FOR_DISPLAY THEN "acquiring"
       ELSE IF stable THEN "tracking" ELSE "stabilizing"
  ELSE "no_signal"

phaseOfStableFirst(fingerDetected, batches, stable) ==
  IF fingerDetected
  THEN IF stable THEN "tracking"
       ELSE IF batches < MIN_BATCHES_FOR_DISPLAY THEN "acquiring" ELSE "stabilizing"
  ELSE "no_signal"

phaseOf(fingerDetected, batches, stable) ==
  IF fingerDetected
  THEN IF batches < MIN_BATCHES_FOR_DISPLAY THEN "acquiring"
       ELSE IF stable THEN "tracking" ELSE "stabilizing"
  ELSE "no_signal"

\* createResponse; quality and confidence are 0.8 or 0, kept in tenths
createResponse(heartRate, fingerDetected, displayValue, displayDetails, zoneName, zoneColor, trend, debug, batches, stable) ==
  [ heartRate |-> heartRate,
    fingerDetected |-> fingerDetected,
    display_value |-> displayValue,
    display_details |-> displayDetails,
    zone |-> zoneName,
    zoneColor |-> zoneColor,
    quality |-> IF fingerDetected THEN 8 ELSE 0,
    confidence |-> IF fingerDetected THEN 8 ELSE 0,
    trend |-> trend,
    phase |-> phaseOf(fingerDetected, batches, stable),
    debug |-> debug ]

\* inAcquisitionPhase ? 0 : finalHeartRate
reportedRateAlways(finalHeartRate, inAcquisitionPhase) == finalHeartRate

reportedRate(finalHeartRate, inAcquisitionPhase) ==
  IF inAcquisitionPhase THEN 0 ELSE finalHeartRate

\* the response of the two early returns
noSignalResponsePhaseOfCounters(batches, stable) ==
  [createResponse(0, FALSE, "No signal", "Place finger on sensor",
                  "Rest", "#3498db", "stable", <<>>, batches, stable)
     EXCEPT !.phase = phaseOfCounters(FALSE, batches, stable)]

noSignalResponse(batches, stable) ==
  createResponse(0, FALSE, "No signal", "Place finger on sensor",
                 "Rest", "#3498db", "stable", <<>>, batches, stable)

(***************************************************************************)
(* Part I.  Inputs                                                         *)
(***************************************************************************)
LowSample == CONTACT_THRESHOLD
HighSample == CONTACT_THRESHOLD + 1

\* n samples of which the first lowCount are at the contact threshold
samplesOf(n, lowCount) ==
  appendRun(appendRun(<<>>, LowSample, lowCount), HighSample, n - lowCount)

\* the batches a caller passes as ppgData; null is a batch with no data,
\* empty an array of no samples.
\* good and mixed show contact (mixed with 69.8% low samples), edgeLow does
\* not (exactly 70% low samples), short is one sample short of MIN_SAMPLES
\* quarter and odd show contact and fill a window of MIN_WINDOW samples
\* in three batches, or miss it by one to three samples
Batches ==
  [ null    |-> [isNull |-> TRUE,  data |-> <<>>],
    empty   |-> [isNull |-> FALSE, data |-> <<>>],
    short   |-> [isNull |-> FALSE, data |-> samplesOf(MIN_SAMPLES - 1, 0)],
    good    |-> [isNull |-> FALSE, data |-> samplesOf(500, 0)],
    quarter |-> [isNull |-> FALSE, data |-> samplesOf(MIN_WINDOW \div 3, 0)],
    odd     |-> [isNull |-> FALSE, data |-> samplesOf(MIN_WINDOW \div 3 - 1, 0)],
    mixed   |-> [isNull |-> FALSE, data |-> samplesOf(500, 349)],
    edgeLow |-> [isNull |-> FALSE, data |-> samplesOf(MIN_SAMPLES, LOW_PERCENT)] ]

AllBatchIds == DOMAIN Batches

\* the batches of the contact scenario
BatchIds == AllBatchIds \ {"quarter", "odd"}

\* currentBatchHasFinger of each batch
batchHasFinger ==
  [id \in AllBatchIds |-> IF Batches[id].isNull THEN FALSE
                       ELSE currentBatchHasFinger(Batches[id].data)]

\* count peaks, the first at index first, gap samples apart
periodicPeaks(first, gap, count) == [i \in 1..count |-> first + (i - 1) * gap]

\* peak lists detectPeaks may return for a window of at least MIN_WINDOW
\* samples: none, a pulse of 72 per minute, a pulse of 150 per minute
NoPeaks == <<>>
CalmPeaks == periodicPeaks(100, 125, 6)
FastPeaks == periodicPeaks(50, 60, 12)
\* a pulse of 40 per minute, the lowest rate that is kept
SlowPeaks == periodicPeaks(100, 225, 4)
\* a pulse of 110 per minute
BriskPeaks == periodicPeaks(100, 82, 10)

\* what detectPeaks guarantees of its result for a signal of the given length
peaksWellFormed(peaks, length) ==
  /\ \A i \in DOMAIN peaks : peaks[i] >= 2 /\ peaks[i] < length - 2
  /\ \A i \in 1..(Len(peaks) - 1) : peaks[i + 1] - peaks[i] >= MIN_PEAK_DISTANCE

\* the batches that show contact
ContactBatchIds == {id \in BatchIds : batchHasFinger[id]}

\* time between two calls: none (the same millisecond) or long
Gaps == {0, LongGap}

\* time between two calls of the warm-up scenario
WarmupGaps == {0, ShortGap, LongGap, THIRD_MINUTE}

(***************************************************************************)
(* Part I.  State                                                          *)
(***************************************************************************)
VARIABLES
  recentHeartRates,             \* last up to 4 accepted rates, newest first
  sampleBuffer,                 \* the sample window
  batchesReceived,
  fingerDetectedState,
  lastDisplayedValue,
  lastDisplayedHeartRate,
  consecutiveLowSignalBatches,
  consecutiveHighZoneReadings,
  isAcquiring,
  acquisitionStartTime,
  isStable,
  firstDisplayTime,
  windowPeaks,                  \* detectPeaks(filterSignal(sampleBuffer))
  clock,                        \* the last value Date.now() returned
  response,                     \* what the last call returned
  call,                         \* the last call: its argument and locals
  heartRateProcessor,           \* module state of heartRateProcessor.js
  activeUploads,                \* server.js: upload tracked per device
  realtimeData,                 \* server.js: latest data for the live view
  files,                        \* the data directory: file name -> content
  lastMessage,                  \* what broadcastData sent to the clients
  served,                       \* the last request and what it was answered
  ownProcessor,                 \* history: per device, the module state an
                                \* instance fed only that device's data has
  hrState,                      \* state of the engine with jump limiting
  hrCall,                       \* its last call: inputs and what it returned
  input,                        \* argument of a function applied on its own
  output                        \* what that function returned

engineVars ==
  << recentHeartRates, sampleBuffer, batchesReceived, fingerDetectedState,
     lastDisplayedValue, lastDisplayedHeartRate, consecutiveLowSignalBatches,
     consecutiveHighZoneReadings, isAcquiring, acquisitionStartTime, isStable,
     firstDisplayTime, windowPeaks >>

serverVars ==
  << heartRateProcessor, activeUploads, realtimeData, files, lastMessage,
     served, ownProcessor >>

sideVars == <<hrState, hrCall, input, output>>

NoCall ==
  [batch |-> "none", returned |-> "none", lowBatches |-> 0,
   calculatedRaw |-> 0, consensus |-> 0]

EngineInit ==
  /\ recentHeartRates = <<>>
  /\ sampleBuffer = <<>>
  /\ batchesReceived = 0
  /\ fingerDetectedState = FALSE
  /\ lastDisplayedValue = "No signal"
  /\ lastDisplayedHeartRate = 0
  /\ consecutiveLowSignalBatches = 0
  /\ consecutiveHighZoneReadings = 0
  /\ isAcquiring = FALSE
  /\ acquisitionStartTime = 0
  /\ isStable = FALSE
  /\ firstDisplayTime = 0
  /\ windowPeaks = <<>>
  /\ clock = ClockOrigin
  /\ response = noSignalResponse(0, FALSE)
  /\ call = NoCall

(***************************************************************************)
(* Part I.  processHeartRate                                               *)
(***************************************************************************)

\* the early return of the exported engine: the acquisition is ended
returnShortNotAcquiring(id, currentTime) ==
  /\ response' = noSignalResponse(batchesReceived, isStable)
  /\ call' = [batch |-> id, returned |-> "short",
              lowBatches |-> consecutiveLowSignalBatches,
              calculatedRaw |-> 0, consensus |-> 0]
  /\ isAcquiring' = FALSE
  /\ batchesReceived' = 0
  /\ UNCHANGED << recentHeartRates, sampleBuffer, fingerDetectedState,
                  lastDisplayedValue, lastDisplayedHeartRate,
                  consecutiveLowSignalBatches, consecutiveHighZoneReadings,
                  acquisitionStartTime, isStable, firstDisplayTime, windowPeaks >>

\* early return: not enough data; no state is touched
returnShort(id, currentTime) ==
  /\ response' = noSignalResponse(batchesReceived, isStable)
  /\ call' = [batch |-> id, returned |-> "short",
              lowBatches |-> consecutiveLowSignalBatches,
              calculatedRaw |-> 0, consensus |-> 0]
  /\ UNCHANGED engineVars

\* finger definitely removed: resetState() and the no-signal response
returnLostKeepingDisplay(id, currentTime, lowBatches) ==
  /\ isAcquiring' = FALSE
  /\ batchesReceived' = 0
  /\ sampleBuffer' = <<>>
  /\ consecutiveLowSignalBatches' = 0
  /\ fingerDetectedState' = FALSE
  /\ isStable' = FALSE
  /\ consecutiveHighZoneReadings' = 0
  /\ windowPeaks' = <<>>
  /\ response' = noSignalResponse(0, FALSE)
  /\ call' = [batch |-> id, returned |-> "lost", lowBatches |-> lowBatches,
              calculatedRaw |-> 0, consensus |-> 0]
  /\ UNCHANGED <<recentHeartRates, lastDisplayedValue, acquisitionStartTime,
                 firstDisplayTime, lastDisplayedHeartRate>>

returnLost(id, currentTime, lowBatches) ==
  /\ isAcquiring' = FALSE
  /\ batchesReceived' = 0
  /\ sampleBuffer' = <<>>
  /\ consecutiveLowSignalBatches' = 0
  /\ fingerDetectedState' = FALSE
  /\ isStable' = FALSE
  /\ consecutiveHighZoneReadings' = 0
  /\ firstDisplayTime' = 0
  /\ lastDisplayedHeartRate' = 0
  /\ windowPeaks' = <<>>
  /\ response' = noSignalResponse(0, FALSE)
  /\ call' = [batch |-> id, returned |-> "lost", lowBatches |-> lowBatches,
              calculatedRaw |-> 0, consensus |-> 0]
  /\ UNCHANGED <<recentHeartRates, lastDisplayedValue, acquisitionStartTime>>

\* peaks are looked for in a window of any length
peaksOfWindowOfAnyLength(buffer, hasFinger, choices) ==
  IF ~hasFinger /\ isAcquiring THEN {windowPeaks}
  ELSE {p \in choices : peaksWellFormed(p, lengthOf(buffer))}

\* the peak lists the signal path may yield for the window a call builds:
\* none is looked for below MIN_WINDOW samples, a window the call did not
\* touch yields the same peaks again, a new window any well-formed list of
\* choices
peaksOfWindow(buffer, hasFinger, choices) ==
  IF lengthOf(buffer) < MIN_WINDOW THEN {<<>>}
  ELSE IF ~hasFinger /\ isAcquiring THEN {windowPeaks}
  ELSE {p \in choices : peaksWellFormed(p, lengthOf(buffer))}

\* the end of a call that found the finger: the display texts, the response
\* and the assignments to the globals.  The parameters are the values the
\* locals and globals have when createResponse is reached.
finishCall(id, currentTime, data, lowBatches, peaks, startTime, batches, buffer, raw, heartRate, firstDisplay, recent, streak, consensus, finalHeartRate, stable, zone, acquisitionTime) ==
  LET seconds == ToString(acquisitionTime \div 1000)
      inAcquisitionPhase == batches < MIN_BATCHES_FOR_DISPLAY
      displayText ==
        IF finalHeartRate > 0
        THEN IF inAcquisitionPhase THEN "Acquiring signal"
             ELSE ToString(finalHeartRate)
        ELSE IF acquisitionTime < 2000 THEN "Detecting pulse" ELSE "Acquiring signal"
      detailText ==
        IF finalHeartRate > 0
        THEN IF inAcquisitionPhase THEN "Please wait... (" \o seconds \o "s)"
             ELSE IF stable THEN zone.name ELSE "Stabilizing..."
        ELSE IF acquisitionTime < 2000 THEN "Please wait..."
             ELSE "Keep finger still (" \o seconds \o "s)"
      debug ==
        [ signalMax |-> signalMax(data),
          bufferSize |-> lengthOf(buffer),
          peakCount |-> Len(peaks),
          calculatedRate |-> heartRate,
          finalRate |-> finalHeartRate,
          recentRates |-> Take(recent, 4),
          stable |-> stable,
          batchesReceived |-> batches,
          inAcquisitionPhase |-> inAcquisitionPhase,
          percentBelowThreshold |-> <<belowThresholdCount(data) * 100, lengthOf(data)>>,
          consecutiveLowSignalBatches |-> lowBatches,
          isHighRate |-> finalHeartRate >= VIGOROUS_THRESHOLD,
          consecutiveHighZoneReadings |-> streak,
          timeSinceFirstDisplay |-> timeSinceFirstDisplay(firstDisplay, currentTime) ]
  IN /\ isAcquiring' = TRUE
     /\ acquisitionStartTime' = startTime
     /\ batchesReceived' = batches
     /\ sampleBuffer' = buffer
     /\ windowPeaks' = peaks
     /\ consecutiveLowSignalBatches' = lowBatches
     /\ fingerDetectedState' = TRUE
     /\ firstDisplayTime' = firstDisplay
     /\ recentHeartRates' = recent
     /\ consecutiveHighZoneReadings' = streak
     /\ isStable' = stable
     /\ lastDisplayedHeartRate' =
          IF finalHeartRate > 0 /\ batches >= MIN_BATCHES_FOR_DISPLAY
          THEN finalHeartRate ELSE lastDisplayedHeartRate
     /\ lastDisplayedValue' = displayText
     /\ response' = createResponse(reportedRate(finalHeartRate, inAcquisitionPhase),
                                   TRUE, displayText, detailText, zone.name,
                                   zone.colorCode, "stable", debug, batches, stable)
     /\ call' = [batch |-> id, returned |-> "result", lowBatches |-> lowBatches,
                 calculatedRaw |-> raw, consensus |-> consensus]

\* from the consensus step on: the warm-up restriction, isStable and the zone
afterConsensus(id, currentTime, data, lowBatches, peaks, startTime, batches, buffer, raw, heartRate, firstDisplay, recent, streak, consensus, finalHeartRate) ==
  finishCall(id, currentTime, data, lowBatches, peaks, startTime, batches, buffer,
             raw, heartRate, firstDisplay, recent, streak, consensus, finalHeartRate,
             stableReading(recent), HR_ZONES[zoneIndex(finalHeartRate)],
             currentTime - startTime)

\* from the history on: the high-zone streak is counted and the consensus of
\* the recent readings is restricted during the warm-up
afterHistory(id, currentTime, data, lowBatches, peaks, startTime, batches, buffer, raw, heartRate, firstDisplay, recent, streak, consensus) ==
  afterConsensus(id, currentTime, data, lowBatches, peaks, startTime, batches, buffer,
                 raw, heartRate, firstDisplay, recent, streak, consensus,
                 restrictHighRate(consensus, streak, lastDisplayedHeartRate,
                                  timeSinceFirstDisplay(firstDisplay, currentTime)))

\* from the corrected rate on: first display time, history and streak
afterRate(id, currentTime, data, lowBatches, peaks, startTime, batches, buffer, raw, heartRate, firstDisplay, recent, streak) ==
  afterHistory(id, currentTime, data, lowBatches, peaks, startTime, batches, buffer,
               raw, heartRate, firstDisplay, recent, streak,
               consensusRate(heartRate, recent, streak, firstDisplay, currentTime))

\* a rate below the vigorous threshold leaves the streak as it is
afterWindowStreakKept(id, currentTime, data, lowBatches, peaks, startTime, batches, buffer, firstDisplay0, streak0, raw, heartRate) ==
  afterRate(id, currentTime, data, lowBatches, peaks, startTime, batches, buffer,
            raw, heartRate,
            IF heartRate > 0 /\ firstDisplay0 = 0 /\ batches >= MIN_BATCHES_FOR_DISPLAY
            THEN currentTime ELSE firstDisplay0,
            pushHistory(recentHeartRates, heartRate),
            IF heartRate >= VIGOROUS_THRESHOLD THEN streak0 + 1 ELSE streak0)

\* from the window on: rate of the window, corrected during the first batches
afterWindow(id, currentTime, data, lowBatches, peaks, startTime, batches, buffer, firstDisplay0, streak0, raw, heartRate) ==
  afterRate(id, currentTime, data, lowBatches, peaks, startTime, batches, buffer,
            raw, heartRate,
            IF heartRate > 0 /\ firstDisplay0 = 0 /\ batches >= MIN_BATCHES_FOR_DISPLAY
            THEN currentTime ELSE firstDisplay0,
            pushHistory(recentHeartRates, heartRate),
            IF heartRate >= VIGOROUS_THRESHOLD THEN streak0 + 1 ELSE 0)

\* acquisitionStartTime after the acquisition was (re)started
startTimeKept(currentTime) == acquisitionStartTime

startTimeAfter(currentTime) ==
  IF isAcquiring THEN acquisitionStartTime ELSE currentTime

\* the rest of the call while the finger state is true; batches and buffer
\* are batchesReceived and sampleBuffer after the batch was taken in
returnResult(id, currentTime, lowBatches, peaks, batches, buffer, raw) ==
  afterWindow(id, currentTime, Batches[id].data, lowBatches, peaks,
              startTimeAfter(currentTime), batches, buffer,
              IF isAcquiring THEN firstDisplayTime ELSE 0,
              IF isAcquiring THEN consecutiveHighZoneReadings ELSE 0,
              raw, initialCorrection(raw, batches))

\* every batch is counted
batchesAfterAnyBatch(hasFinger) ==
  (IF isAcquiring THEN batchesReceived ELSE 0) + 1

\* batchesReceived after the acquisition was (re)started and the batch counted
batchesAfter(hasFinger) ==
  (IF isAcquiring THEN batchesReceived ELSE 0) + (IF hasFinger THEN 1 ELSE 0)

\* sampleBuffer after the acquisition was (re)started and the batch appended
bufferAfterOldestKept(hasFinger, data) ==
  LET cleared == IF isAcquiring THEN sampleBuffer ELSE <<>>
      joined == concatSamples(cleared, data)
  IN IF hasFinger
     THEN IF lengthOf(joined) > MAX_BUFFER_SIZE
          THEN IF lengthOf(cleared) = MAX_BUFFER_SIZE THEN cleared
               ELSE sliceLast(joined, MAX_BUFFER_SIZE)
          ELSE joined
     ELSE cleared

bufferAfter(hasFinger, data) ==
  LET cleared == IF isAcquiring THEN sampleBuffer ELSE <<>>
      joined == concatSamples(cleared, data)
  IN IF hasFinger
     THEN IF lengthOf(joined) > MAX_BUFFER_SIZE
          THEN sliceLast(joined, MAX_BUFFER_SIZE) ELSE joined
     ELSE cleared

\* the finger state is true: take the batch in and look for peaks
takeBatch(id, currentTime, lowBatches, hasFinger, batches, buffer, choices) ==
  /\ batches <= MaxBatches
  /\ \E peaks \in peaksOfWindow(buffer, hasFinger, choices) :
       returnResult(id, currentTime, lowBatches, peaks, batches, buffer,
                    IF lengthOf(buffer) >= MIN_WINDOW
                    THEN calculateRate(peaks, lengthOf(buffer)) ELSE 0)

\* the finger state after the batch was classified
fingerStateNoDebounce(hasFinger, lowBatches) == hasFinger

fingerStateAfter(hasFinger, lowBatches) ==
  IF hasFinger THEN TRUE
  ELSE IF lowBatches >= 2 THEN FALSE
  ELSE fingerDetectedState

\* the call from the finger detection on
classifyBatch(id, currentTime, data, hasFinger, lowBatches, choices) ==
  IF fingerStateAfter(hasFinger, lowBatches)
  THEN takeBatch(id, currentTime, lowBatches, hasFinger, batchesAfter(hasFinger),
                 bufferAfter(hasFinger, data), choices)
  ELSE returnLost(id, currentTime, lowBatches)

\* consecutiveLowSignalBatches after the batch was classified
lowBatchesNeverCleared(hasFinger) ==
  IF ~hasFinger THEN consecutiveLowSignalBatches + 1 ELSE consecutiveLowSignalBatches

lowBatchesAfter(hasFinger) ==
  IF ~hasFinger THEN consecutiveLowSignalBatches + 1 ELSE 0

\* one call processHeartRate(Batches[id]) made gap ms after the previous one;
\* choices are the peak lists the signal path may yield
processHeartRate(id, gap, choices) ==
  /\ UNCHANGED <<serverVars, sideVars>>
  /\ clock' = clock + gap
  /\ IF Batches[id].isNull \/ lengthOf(Batches[id].data) < MIN_SAMPLES
     THEN returnShort(id, clock + gap)
     ELSE classifyBatch(id, clock + gap, Batches[id].data, batchHasFinger[id],
                        lowBatchesAfter(batchHasFinger[id]), choices)

(***************************************************************************)
(* Part II.  The engine heartRateProcessor.js exports                      *)
(***************************************************************************)

\* STEP 3 of the exported engine: the rate of one batch from its peaks
batchRate(peaks, batchLength) ==
  IF Len(peaks) >= 2
  THEN LET m1 == intervalMethod(peaks)
           m2 == IF m1 = 0 /\ Len(peaks) >= 3 THEN spanMethod(peaks) ELSE m1
       IN IF m2 = 0 THEN durationMethod(peaks, batchLength) ELSE m2
  ELSE 0

\* the current reading whatever the recent readings are
batchConsensusOfCurrent(heartRate, recent) == heartRate

\* finalHeartRate of the exported engine: the mean of the recent readings
\* when they are not within range, else the current or the latest reading
batchConsensus(heartRate, recent) ==
  IF Len(recent) >= 3
  THEN IF ~allWithinSpread(recent) THEN meanOfRecent(recent)
       ELSE IF heartRate > 0 THEN heartRate ELSE recent[1]
  ELSE heartRate

\* the module state after the two early returns
notAcquiring(st) == [st EXCEPT !.isAcquiring = FALSE, !.batchesReceived = 0]

\* the module state and the response once the finger was detected; the
\* parameters are the values of the locals and globals at createResponse
detectedResult(st, data, peaks, currentTime, startTime, batches, heartRate, recent, finalHeartRate, stable, zone) ==
  LET acquisitionTime == currentTime - startTime
      seconds == ToString(acquisitionTime \div 1000)
      inAcquisitionPhase == batches < MIN_BATCHES_FOR_DISPLAY
      displayText ==
        IF finalHeartRate > 0
        THEN IF inAcquisitionPhase THEN "Acquiring signal"
             ELSE ToString(finalHeartRate)
        ELSE IF acquisitionTime < 2000 THEN "Detecting pulse" ELSE "Acquiring signal"
      detailText ==
        IF finalHeartRate > 0
        THEN IF inAcquisitionPhase THEN "Please wait... (" \o seconds \o "s)"
             ELSE IF stable THEN zone.name ELSE "Stabilizing..."
        ELSE IF acquisitionTime < 2000 THEN "Please wait..."
             ELSE "Keep finger still (" \o seconds \o "s)"
      debug ==
        [ signalMax |-> signalMax(data),
          peakCount |-> Len(peaks),
          batchSize |-> lengthOf(data),
          calculatedRate |-> heartRate,
          finalRate |-> finalHeartRate,
          recentRates |-> Take(recent, 4),
          stable |-> stable,
          batchesReceived |-> batches,
          inAcquisitionPhase |-> inAcquisitionPhase ]
  IN [ state |-> [ recentHeartRates |-> recent,
                   batchesReceived |-> batches,
                   isAcquiring |-> TRUE,
                   acquisitionStartTime |-> startTime,
                   isStable |-> stable ],
       response |-> createResponse(reportedRate(finalHeartRate, inAcquisitionPhase),
                                   TRUE, displayText, detailText, zone.name,
                                   zone.colorCode, "stable", debug, batches, stable) ]

\* the exported engine from the history on
detectedFromRate(st, data, peaks, currentTime, startTime, batches, heartRate, recent, finalHeartRate) ==
  detectedResult(st, data, peaks, currentTime, startTime, batches, heartRate, recent,
                 finalHeartRate, stableReading(recent),
                 HR_ZONES[zoneIndex(finalHeartRate)])

\* the exported engine once the finger was detected
detected(st, data, peaks, currentTime, heartRate) ==
  detectedFromRate(st, data, peaks, currentTime,
                   IF st.isAcquiring THEN st.acquisitionStartTime ELSE currentTime,
                   (IF st.isAcquiring THEN st.batchesReceived ELSE 0) + 1,
                   heartRate,
                   pushHistory(st.recentHeartRates, heartRate),
                   batchConsensus(heartRate, pushHistory(st.recentHeartRates, heartRate)))

\* the finger is looked for as in the engine with the sample window
exportedWithLowPercent(st, data, peaks, currentTime) ==
  IF lengthOf(data) < MIN_SAMPLES
  THEN [state |-> notAcquiring(st), response |-> noSignalResponse(0, st.isStable)]
  ELSE IF ~currentBatchHasFinger(data)
       THEN [state |-> notAcquiring(st), response |-> noSignalResponse(0, st.isStable)]
       ELSE detected(st, data, peaks, currentTime, batchRate(peaks, lengthOf(data)))

\* processHeartRate(ppgData) of heartRateProcessor.js on the module state st:
\* the module state after the call and the response; peaks is what
\* detectPeaks(filterSignal(ppgData)) yields for this batch
exportedProcessHeartRate(st, data, peaks, currentTime) ==
  IF lengthOf(data) < MIN_SAMPLES
  THEN [state |-> notAcquiring(st), response |-> noSignalResponse(0, st.isStable)]
  ELSE IF ~(signalMax(data) > CONTACT_THRESHOLD)
       THEN [state |-> notAcquiring(st), response |-> noSignalResponse(0, st.isStable)]
       ELSE detected(st, data, peaks, currentTime, batchRate(peaks, lengthOf(data)))

\* the module state when the module is loaded
ProcessorInit ==
  [ recentHeartRates |-> <<>>,
    batchesReceived |-> 0,
    isAcquiring |-> FALSE,
    acquisitionStartTime |-> 0,
    isStable |-> FALSE ]

(***************************************************************************)
(* Part II.  server.js                                                     *)
(***************************************************************************)

\* chunk or total_chunks of a request body that has none
Undefined == -1

\* a text that is not there
Absent == ""

\* an upload may stay inactive for 600000 ms
UPLOAD_TIMEOUT == 600000

\* device_id of a request body; the empty string is as good as none
Devices == {"esp32-a", "esp32-b"}
DeviceIds == Devices \cup {""}

\* data of a request body: none, an empty array, or an array of samples
\* with the peaks the signal path finds in it
Payloads ==
  [ missing |-> [isArray |-> FALSE, data |-> <<>>, peaks |-> <<>>],
    empty   |-> [isArray |-> TRUE,  data |-> <<>>, peaks |-> <<>>],
    dark    |-> [isArray |-> TRUE,  data |-> samplesOf(500, 500), peaks |-> <<>>],
    calm    |-> [isArray |-> TRUE,  data |-> samplesOf(500, 0),
                 peaks |-> periodicPeaks(100, 125, 4)],
    fast    |-> [isArray |-> TRUE,  data |-> samplesOf(500, 0),
                 peaks |-> periodicPeaks(50, 60, 8)],
    spark   |-> [isArray |-> TRUE,  data |-> samplesOf(500, 499), peaks |-> <<>>],
    short   |-> [isArray |-> TRUE,  data |-> samplesOf(MIN_SAMPLES - 1, 0),
                 peaks |-> <<>>] ]

\* the payloads of the server scenario
PayloadIds == {"missing", "empty", "dark", "calm"}

\* the payloads of one device that keeps posting batches: too short, all
\* samples low, one sample above the contact threshold, a calm and a fast
\* pulse
StreamPayloadIds == {"short", "dark", "spark", "calm", "fast"}

\* chunk and total_chunks of a request body
ChunkValues == {Undefined, 0, 1}
TotalValues == {Undefined, 1, 2}

\* !device_id || !data || !Array.isArray(data)
invalidBody(device, payload) == device = "" \/ ~Payloads[payload].isArray

NoUpload == [sessionId |-> Undefined]
NoInfo == [phase |-> "none"]
NoMessage == [type |-> "none"]

ServerInit ==
  /\ heartRateProcessor = ProcessorInit
  /\ activeUploads = [d \in Devices |-> NoUpload]
  /\ realtimeData =
       [ lastUpdated |-> ClockOrigin,
         values |-> <<<<0, 500>>>>,
         heartRate |-> 0,
         heartRateZone |-> "Rest",
         heartRateQuality |-> 0,
         heartRateTrend |-> "stable",
         fingerDetected |-> FALSE,
         display_value |-> Absent,
         display_details |-> Absent ]
  /\ files = <<>>
  /\ lastMessage = NoMessage
  /\ served = [endpoint |-> "none", device |-> "", payload |-> "missing",
               status |-> 0, hrInfo |-> NoInfo, own |-> NoInfo, requests |-> 0]
  /\ ownProcessor = [d \in Devices |-> ProcessorInit]

\* realtimeData after broadcastData(data, hrInfo)
broadcastData(data, hrInfo, now) ==
  [ lastUpdated |-> now,
    values |-> data,
    heartRate |-> hrInfo.heartRate,
    heartRateZone |-> hrInfo.zone,
    heartRateQuality |-> hrInfo.quality,
    heartRateTrend |-> hrInfo.trend,
    fingerDetected |-> hrInfo.fingerDetected,
    display_value |-> hrInfo.display_value,
    display_details |-> hrInfo.display_details ]

\* the message broadcastData sends to every open client
updateMessage(data, stored) ==
  [ type |-> "update",
    data |-> data,
    heartRate |-> stored.heartRate,
    heartRateZone |-> stored.heartRateZone,
    heartRateQuality |-> stored.heartRateQuality,
    heartRateTrend |-> stored.heartRateTrend,
    fingerDetected |-> stored.fingerDetected,
    display_value |-> stored.display_value,
    display_details |-> stored.display_details ]

\* the request was refused: 400 and nothing else
refuse(endpoint, device, payload) ==
  /\ served' = [endpoint |-> endpoint, device |-> device, payload |-> payload,
                status |-> 400, hrInfo |-> NoInfo, own |-> NoInfo,
                requests |-> served.requests + 1]
  /\ UNCHANGED <<heartRateProcessor, activeUploads, realtimeData, files,
                 lastMessage, ownProcessor>>

\* processHeartRate(data) and broadcastData(data, hrInfo) of both handlers;
\* result is what the module returns, own what an instance of the device's
\* own returns for the same data
processAndBroadcast(endpoint, device, payload, now, result, own) ==
  /\ heartRateProcessor' = result.state
  /\ ownProcessor' = [ownProcessor EXCEPT ![device] = own.state]
  /\ realtimeData' = broadcastData(Payloads[payload].data, result.response, now)
  /\ lastMessage' = updateMessage(Payloads[payload].data,
                                  broadcastData(Payloads[payload].data, result.response, now))
  /\ served' = [endpoint |-> endpoint, device |-> device, payload |-> payload,
                status |-> 200, hrInfo |-> result.response, own |-> own.response,
                requests |-> served.requests + 1]

\* the module's answer to the data of a request
askProcessor(st, payload, now) ==
  exportedProcessHeartRate(st, Payloads[payload].data, Payloads[payload].peaks, now)

\* POST /api/realtime-data
postRealtimeData(device, payload, now) ==
  /\ clock' = now
  /\ UNCHANGED <<engineVars, response, call, sideVars>>
  /\ IF invalidBody(device, payload)
     THEN refuse("realtime-data", device, payload)
     ELSE /\ processAndBroadcast("realtime-data", device, payload, now,
                                 askProcessor(heartRateProcessor, payload, now),
                                 askProcessor(ownProcessor[device], payload, now))
          /\ UNCHANGED <<activeUploads, files>>

\* the name of the file of an upload session
fileName(device, recovery, now) ==
  [device |-> device, recovery |-> recovery, sessionId |-> now]

\* the tracking record of a new upload session
newUpload(device, recovery, total_chunks, now) ==
  [ sessionId |-> now,
    filename |-> fileName(device, recovery, now),
    total_chunks |-> IF total_chunks \in {Undefined, 0} THEN 1 ELSE total_chunks,
    received_chunks |-> 0,
    lastUpdate |-> now ]

\* fs.writeFileSync(filepath, 'ir_value\n')
writeHeader(fs, name) ==
  [n \in DOMAIN fs \cup {name} |->
     IF n = name THEN [header |-> "ir_value", rows |-> <<>>] ELSE fs[n]]

\* fs.appendFileSync(filepath, csvData): one line per sample
appendRows(fs, name, data) ==
  [fs EXCEPT ![name].rows = concatSamples(@, data)]

\* activeUploads once the first chunk of a session created its entry
uploadsAfterFirstChunk(device, chunk, total_chunks, now) ==
  IF chunk = 0 \/ chunk = Undefined
  THEN [activeUploads EXCEPT ![device] = newUpload(device, FALSE, total_chunks, now)]
  ELSE activeUploads

\* activeUploads once a missing entry was created as a recovery session
uploadsAfterRecovery(uploads, device, total_chunks, now) ==
  IF uploads[device] = NoUpload
  THEN [uploads EXCEPT ![device] = newUpload(device, TRUE, total_chunks, now)]
  ELSE uploads

\* the files once the session files were created
filesAfterSessions(device, chunk, now) ==
  LET first == IF chunk = 0 \/ chunk = Undefined
               THEN writeHeader(files, fileName(device, FALSE, now)) ELSE files
  IN IF ~(chunk = 0 \/ chunk = Undefined) /\ activeUploads[device] = NoUpload
     THEN writeHeader(first, fileName(device, TRUE, now)) ELSE first

\* activeUploads[device_id].received_chunks++ and lastUpdate = Date.now()
countChunk(uploads, device, now) ==
  [uploads EXCEPT ![device].received_chunks = @ + 1, ![device].lastUpdate = now]

\* a completion test that looks at the count alone
uploadCompleteByCount(upload, chunk) ==
  upload.received_chunks >= upload.total_chunks

\* the upload is complete: all chunks counted, or the data came in one piece
uploadComplete(upload, chunk) ==
  chunk = Undefined \/ upload.received_chunks >= upload.total_chunks

\* the try block: append, process, broadcast, clean up; or the catch
saveAndProcess(device, payload, chunk, now, uploads, created, fsFails) ==
  IF fsFails
  THEN /\ activeUploads' = uploads
       /\ files' = created
       /\ served' = [endpoint |-> "sensor-data", device |-> device,
                     payload |-> payload, status |-> 500, hrInfo |-> NoInfo,
                     own |-> NoInfo, requests |-> served.requests + 1]
       /\ UNCHANGED <<heartRateProcessor, realtimeData, lastMessage, ownProcessor>>
  ELSE /\ files' = appendRows(created, uploads[device].filename, Payloads[payload].data)
       /\ processAndBroadcast("sensor-data", device, payload, now,
                              askProcessor(heartRateProcessor, payload, now),
                              askProcessor(ownProcessor[device], payload, now))
       /\ activeUploads' = IF uploadComplete(uploads[device], chunk)
                           THEN [uploads EXCEPT ![device] = NoUpload]
                           ELSE uploads

\* POST /api/sensor-data
postSensorData(device, payload, chunk, total_chunks, now, fsFails) ==
  /\ clock' = now
  /\ UNCHANGED <<engineVars, response, call, sideVars>>
  /\ IF invalidBody(device, payload)
     THEN refuse("sensor-data", device, payload)
     ELSE saveAndProcess(device, payload, chunk, now,
                         countChunk(uploadsAfterRecovery(
                                      uploadsAfterFirstChunk(device, chunk, total_chunks, now),
                                      device, total_chunks, now),
                                    device, now),
                         filesAfterSessions(device, chunk, now), fsFails)

\* the interval timer: uploads not updated for more than 10 minutes are dropped
cleanupInactiveUploads(now) ==
  /\ clock' = now
  /\ activeUploads' =
       [d \in Devices |->
          IF activeUploads[d] # NoUpload /\ now - activeUploads[d].lastUpdate > UPLOAD_TIMEOUT
          THEN NoUpload ELSE activeUploads[d]]
  /\ UNCHANGED <<engineVars, response, call, heartRateProcessor, realtimeData,
                 files, lastMessage, served, ownProcessor, sideVars>>

\* the time from the last event to a firing of the interval timer: none, or
\* long enough for every upload to count as inactive
TimerGaps == {0, UPLOAD_TIMEOUT + 1}

\* time between two requests
ServerGaps == {ServerGap}


(***************************************************************************)
(* Part III.  The engine with jump limiting and display smoothing          *)
(* (heartRateProcessor.js, l.1-348).  Confidence and quality are kept in   *)
(* thousandths.  assessSignalQuality, calculateTrend, isStableReading and  *)
(* getCurrentZone are called but not defined in the file; the signal path  *)
(* of calculateHeartRate works on doubles.  What they return in a call is  *)
(* an input of the call, except the zone and the stability test.           *)
(***************************************************************************)
SAMPLE_RATE == 150
BUFFER_SIZE == 1000
MAX_JUMP == 15
HISTORY_SIZE == 10
RECALCULATION_PERIOD == 500

\* hrState when the module is loaded
HrStateInit ==
  [ fingerDetected |-> FALSE,
    ppgBuffer |-> <<>>,
    heartRateHistory |-> <<>>,
    confidenceScores |-> <<>>,
    timestamps |-> <<>>,
    lastHeartRate |-> 0,
    lastCalculation |-> 0,
    signalQuality |-> 0,
    stabilityCounter |-> 0,
    smoothedHeartRate |-> 0 ]

NoHrCall == [returned |-> "none", count |-> 0]

\* hrState.ppgBuffer after the batch was added and the buffer cut to size
ppgBufferAfter(data) ==
  LET joined == concatSamples(hrState.ppgBuffer, data)
  IN IF lengthOf(joined) > BUFFER_SIZE THEN sliceLast(joined, BUFFER_SIZE) ELSE joined

\* the zone of a rate, by the zone table
getCurrentZone(heartRate) == HR_ZONES[zoneIndex(heartRate)].name

\* the stability test of the history
isStableReading(history) == allWithinSpread(history)

\* the jump limitation: the new rate moves at most MAX_JUMP from the last one
limitedUpOnly(heartRate, last) ==
  IF last > 0 /\ heartRate - last > MAX_JUMP THEN last + MAX_JUMP ELSE heartRate

limitedHeartRate(heartRate, last) ==
  IF last > 0 /\ Abs(heartRate - last) > MAX_JUMP
  THEN IF heartRate > last THEN last + MAX_JUMP ELSE last - MAX_JUMP
  ELSE heartRate

\* result.confidence *= 0.7 when the jump limitation was applied
limitedConfidence(heartRate, last, confidence) ==
  IF last > 0 /\ Abs(heartRate - last) > MAX_JUMP
  THEN (confidence * 7) \div 10 ELSE confidence

\* <<smoothed, limited>> for which the double 0.85 * smoothed + 0.15 * limited
\* lies just below the tie .5
SmoothTieDown ==
  { <<42, 52>>, <<42, 72>>, <<42, 92>>, <<47, 57>>, <<47, 77>>, <<47, 97>>,
    <<52, 42>>, <<52, 62>>, <<52, 82>>, <<52, 102>>, <<57, 47>>, <<57, 67>>,
    <<57, 87>>, <<62, 52>>, <<62, 72>>, <<79, 49>>, <<79, 69>>, <<79, 89>>,
    <<79, 109>>, <<79, 129>>, <<79, 149>>, <<79, 169>>, <<79, 189>>, <<84, 54>>,
    <<84, 74>>, <<84, 94>>, <<84, 114>>, <<84, 134>>, <<84, 154>>, <<84, 174>>,
    <<84, 194>>, <<89, 59>>, <<89, 79>>, <<89, 99>>, <<89, 119>>, <<89, 139>>,
    <<89, 159>>, <<89, 179>>, <<89, 199>>, <<94, 44>>, <<94, 64>>, <<94, 84>>,
    <<94, 104>>, <<94, 124>>, <<94, 144>>, <<94, 164>>, <<94, 184>>, <<99, 49>>,
    <<99, 69>>, <<99, 89>>, <<99, 109>>, <<99, 129>>, <<99, 149>>, <<99, 169>>,
    <<99, 189>>, <<104, 54>>, <<104, 74>>, <<104, 94>>, <<104, 114>>, <<104, 134>>,
    <<104, 154>>, <<104, 174>>, <<104, 194>>, <<109, 59>>, <<109, 79>>, <<109, 99>>,
    <<109, 119>>, <<109, 139>>, <<109, 159>>, <<109, 179>>, <<109, 199>>, <<114, 44>>,
    <<114, 64>>, <<114, 84>>, <<114, 104>>, <<114, 124>>, <<114, 144>>, <<114, 164>>,
    <<114, 184>>, <<119, 49>>, <<119, 69>>, <<119, 89>>, <<119, 109>>, <<119, 129>>,
    <<119, 149>>, <<119, 169>>, <<124, 54>>, <<124, 74>>, <<124, 94>>, <<124, 114>>,
    <<124, 134>>, <<129, 59>>, <<129, 79>>, <<129, 99>>, <<129, 119>>, <<134, 44>>,
    <<134, 64>>, <<134, 84>>, <<139, 49>>, <<153, 43>>, <<153, 63>>, <<153, 83>>,
    <<153, 103>>, <<153, 123>>, <<153, 143>>, <<153, 163>>, <<153, 183>>, <<158, 48>>,
    <<158, 68>>, <<158, 88>>, <<158, 108>>, <<158, 128>>, <<158, 148>>, <<158, 168>>,
    <<158, 188>>, <<163, 53>>, <<163, 73>>, <<163, 93>>, <<163, 113>>, <<163, 133>>,
    <<163, 153>>, <<163, 173>>, <<163, 193>>, <<168, 58>>, <<168, 78>>, <<168, 98>>,
    <<168, 118>>, <<168, 138>>, <<168, 158>>, <<168, 178>>, <<168, 198>>, <<173, 43>>,
    <<173, 63>>, <<173, 83>>, <<173, 103>>, <<173, 123>>, <<173, 143>>, <<173, 163>>,
    <<173, 183>>, <<178, 48>>, <<178, 68>>, <<178, 88>>, <<178, 108>>, <<178, 128>>,
    <<178, 148>>, <<178, 168>>, <<178, 188>>, <<183, 53>>, <<183, 73>>, <<183, 93>>,
    <<183, 113>>, <<183, 133>>, <<183, 153>>, <<183, 173>>, <<183, 193>>, <<188, 58>>,
    <<188, 78>>, <<188, 98>>, <<188, 118>>, <<188, 138>>, <<188, 158>>, <<188, 178>>,
    <<188, 198>>, <<193, 43>>, <<193, 63>>, <<193, 83>>, <<193, 103>>, <<193, 123>>,
    <<193, 143>>, <<193, 163>>, <<193, 183>>, <<198, 48>>, <<198, 68>>, <<198, 88>>,
    <<198, 108>>, <<198, 128>>, <<198, 148>>, <<198, 168>>, <<198, 188>> }

\* the smoothed rate: the limited rate at first, then
\* Math.round(0.85 * smoothedHeartRate + 0.15 * limitedHeartRate)
smoothedWithoutStart(smoothed, limited) ==
  LET exact == RoundDiv(85 * smoothed + 15 * limited, 100)
  IN IF <<smoothed, limited>> \in SmoothTieDown THEN exact - 1 ELSE exact

smoothedAfter(smoothed, limited) ==
  IF smoothed = 0 THEN limited
  ELSE LET exact == RoundDiv(85 * smoothed + 15 * limited, 100)
       IN IF <<smoothed, limited>> \in SmoothTieDown THEN exact - 1 ELSE exact

\* array.unshift(x), pop() past 10 entries
unshiftBounded(array, x) ==
  LET a == <<x>> \o array
  IN IF Len(a) > HISTORY_SIZE THEN SubSeq(a, 1, Len(a) - 1) ELSE a

\* return: the buffer holds less than two seconds of samples
returnTooShort(made, buffer) ==
  /\ hrState' = [hrState EXCEPT !.ppgBuffer = buffer]
  /\ hrCall' = [made EXCEPT !.returned = "short",
                  !.value = [heartRate |-> 0, zone |-> "Rest", quality |-> 0,
                             trend |-> "stable", fingerDetected |-> FALSE]]

\* return: no finger; the stability counter and the smoothed rate are reset
returnNoFinger(made, buffer) ==
  /\ hrState' = [hrState EXCEPT !.ppgBuffer = buffer, !.fingerDetected = FALSE,
                   !.stabilityCounter = 0, !.smoothedHeartRate = 0]
  /\ hrCall' = [made EXCEPT !.returned = "no_finger",
                  !.value = [heartRate |-> 0, zone |-> "Rest", quality |-> 0,
                             trend |-> "stable", fingerDetected |-> FALSE]]

\* return: the last calculation is younger than 500 ms
returnLastCalculation(made, buffer) ==
  /\ hrState' = [hrState EXCEPT !.ppgBuffer = buffer, !.fingerDetected = TRUE]
  /\ hrCall' = [made EXCEPT !.returned = "last",
                  !.value = [heartRate |-> hrState.smoothedHeartRate,
                             zone |-> getCurrentZone(hrState.smoothedHeartRate),
                             quality |-> hrState.signalQuality,
                             trend |-> made.trend, fingerDetected |-> TRUE]]

\* return: a rate was calculated; limited is the rate and confidence the
\* confidence after the jump limitation, smoothed the new smoothed rate
returnCalculated(made, buffer, now, limited, confidence, history, smoothed) ==
  /\ hrState' =
       [hrState EXCEPT
          !.ppgBuffer = buffer,
          !.fingerDetected = TRUE,
          !.lastCalculation = now,
          !.heartRateHistory = history,
          !.confidenceScores = unshiftBounded(@, confidence),
          !.timestamps = unshiftBounded(@, now),
          !.lastHeartRate = limited,
          !.smoothedHeartRate = smoothed,
          !.signalQuality = confidence,
          !.stabilityCounter =
             IF isStableReading(history) THEN @ + 1 ELSE Max2(0, @ - 1)]
  /\ hrCall' = [made EXCEPT !.returned = "calculated", !.limited = limited,
                  !.value = [heartRate |-> smoothed,
                             zone |-> getCurrentZone(smoothed),
                             quality |-> confidence,
                             trend |-> made.trend, fingerDetected |-> TRUE,
                             isStable |->
                               (IF isStableReading(history)
                                THEN hrState.stabilityCounter + 1
                                ELSE Max2(0, hrState.stabilityCounter - 1)) > 2]]

\* return: no rate was calculated; the last smoothed rate is carried over
\* when the signal is good
returnWithoutRate(made, buffer, now, signalQuality) ==
  /\ hrState' = [hrState EXCEPT !.ppgBuffer = buffer, !.fingerDetected = TRUE,
                   !.lastCalculation = now]
  /\ hrCall' =
       IF hrState.smoothedHeartRate > 0 /\ signalQuality > 500
       THEN [made EXCEPT !.returned = "carried",
               !.value = [heartRate |-> hrState.smoothedHeartRate,
                          zone |-> getCurrentZone(hrState.smoothedHeartRate),
                          quality |-> (signalQuality * 7) \div 10,
                          trend |-> made.trend, fingerDetected |-> TRUE]]
       ELSE [made EXCEPT !.returned = "none_valid",
               !.value = [heartRate |-> 0, zone |-> "Rest",
                          quality |-> signalQuality, trend |-> "stable",
                          fingerDetected |-> TRUE]]

\* the main calculation, from the jump limitation on
calculated(made, buffer, now, signalQuality, limited, confidence) ==
  returnCalculated(made, buffer, now, limited, confidence,
                   unshiftBounded(hrState.heartRateHistory, limited),
                   smoothedAfter(hrState.smoothedHeartRate, limited))

\* processHeartRate(ppgData) of the engine with jump limiting, called at
\* time now; signalQuality is what assessSignalQuality returns for the
\* buffer, calculation what calculateHeartRate returns, trend what
\* calculateTrend returns
limitingProcessHeartRate(data, now, signalQuality, calculation, trend) ==
  LET buffer == ppgBufferAfter(data)
      made == [returned |-> "none", count |-> hrCall.count + 1, data |-> data,
               signalQuality |-> signalQuality, calculation |-> calculation,
               trend |-> trend, limited |-> 0, value |-> <<>>]
  IN /\ clock' = now
     /\ UNCHANGED <<engineVars, response, call, serverVars, input, output>>
     /\ IF lengthOf(buffer) < SAMPLE_RATE * 2
        THEN returnTooShort(made, buffer)
        ELSE IF ~(signalQuality > 300)
             THEN returnNoFinger(made, buffer)
             ELSE IF now - hrState.lastCalculation < RECALCULATION_PERIOD
                     /\ hrState.smoothedHeartRate > 0
                  THEN returnLastCalculation(made, buffer)
                  ELSE IF calculation.heartRate > 0
                       THEN calculated(made, buffer, now, signalQuality,
                                       limitedHeartRate(calculation.heartRate,
                                                        hrState.lastHeartRate),
                                       limitedConfidence(calculation.heartRate,
                                                         hrState.lastHeartRate,
                                                         calculation.confidence))
                       ELSE returnWithoutRate(made, buffer, now, signalQuality)

\* inputs of the scenario: a batch of one second of samples; what the
\* signal path may make of the buffer
SecondOfSamples == samplesOf(SAMPLE_RATE, 0)
SignalQualities == {300, 400, 600}
Calculations ==
  { [heartRate |-> 0,  confidence |-> 0],
    [heartRate |-> 70, confidence |-> 1000],
    [heartRate |-> 95, confidence |-> 500],
    [heartRate |-> 60, confidence |-> 1000] }
Trends == {"stable", "rising", "falling"}
CalculationGaps == {0, RECALCULATION_PERIOD}

(***************************************************************************)
(* Part I.  detectPeaks (src/unnamed/part_000), on signals of integers.    *)
(* A signal is the sequence of its values; the value at index i (from 0,   *)
(* as in the source) is signal[i + 1], and peaks are indices from 0.       *)
(***************************************************************************)

\* sortedSignal[Math.floor(sortedSignal.length * 0.25)], sorted descending
thresholdBase(signal) ==
  CHOOSE v \in {signal[k] : k \in DOMAIN signal} :
    /\ Cardinality({k \in DOMAIN signal : signal[k] > v}) <= Len(signal) \div 4
    /\ Cardinality({k \in DOMAIN signal : signal[k] >= v}) > Len(signal) \div 4

\* filteredSignal[i] is above its two neighbours on each side
isLocalMaximum(signal, i) ==
  /\ signal[i + 1] > signal[i]
  /\ signal[i + 1] > signal[i - 1]
  /\ signal[i + 1] > signal[i + 2]
  /\ signal[i + 1] > signal[i + 3]

\* peaks.includes(i)
includes(peaks, i) == \E k \in DOMAIN peaks : peaks[k] = i

\* one loop over i = 2 .. length - 3 from index i on; a value is above the
\* threshold base / scale if scale * value > base.  Yields <<peaks,
\* lastPeakIndex>>
RECURSIVE scanForPeaks(_, _, _, _, _, _)
scanForPeaks(signal, base, scale, i, peaks, lastPeakIndex) ==
  IF i >= Len(signal) - 2 THEN <<peaks, lastPeakIndex>>
  ELSE IF /\ ~includes(peaks, i)
          /\ isLocalMaximum(signal, i)
          /\ scale * signal[i + 1] > base
          /\ i - lastPeakIndex >= MIN_PEAK_DISTANCE
       THEN scanForPeaks(signal, base, scale, i + 1, Append(peaks, i), i)
       ELSE scanForPeaks(signal, base, scale, i + 1, peaks, lastPeakIndex)

\* the second loop, with the lower threshold, and the sort
retryFromStart(signal, base, first) ==
  IF Len(first[1]) < 3 /\ base > 0
  THEN SortAsc(scanForPeaks(signal, base, 5, 2, first[1], -MIN_PEAK_DISTANCE)[1])
  ELSE first[1]

retryLower(signal, base, first) ==
  IF Len(first[1]) < 3 /\ base > 0
  THEN SortAsc(scanForPeaks(signal, base, 5, 2, first[1], first[2])[1])
  ELSE first[1]

\* detectPeaks once the threshold base is known
detectPeaksAbove(signal, base) ==
  retryLower(signal, base, scanForPeaks(signal, base, 2, 2, <<>>, -MIN_PEAK_DISTANCE))

detectPeaks(filteredSignal) ==
  IF filteredSignal = <<>> THEN <<>>
  ELSE detectPeaksAbove(filteredSignal, thresholdBase(filteredSignal))

(***************************************************************************)
(* Part I.  filterSignal (src/unnamed/part_000), in exact arithmetic.  The *)
(* source divides by the length and by window counts; the model keeps      *)
(* every intermediate array multiplied by the least common multiple of its *)
(* divisors, so that all values are integers: for a window of n samples    *)
(* the result stands for result[i] * (n * s1)^2 * s2, with s1 and s2 the   *)
(* least common multiples of the counts of the two moving averages.        *)
(***************************************************************************)
RECURSIVE Gcd(_, _)
Gcd(a, b) == IF b = 0 THEN a ELSE Gcd(b, a % b)

Lcm(a, b) == (a \div Gcd(a, b)) * b

\* count of the inner loop for j from max(0, i - w) to min(length - 1, i + w)
windowCount(i, n, w) == Min2(n, i + w) - Max2(1, i - w) + 1

\* the least common multiple of the counts of the places i .. n
RECURSIVE windowScale(_, _, _)
windowScale(i, n, w) ==
  IF i > n THEN 1 ELSE Lcm(windowCount(i, n, w), windowScale(i + 1, n, w))

\* sum of the inner loop
windowSum(values, i, w) ==
  SumSeq(SubSeq(values, Max2(1, i - w), Min2(Len(values), i + w)))

\* the moving average sum / count, times windowScale
movingAverage(values, w) ==
  [i \in 1..Len(values) |->
     (windowScale(1, Len(values), w) \div windowCount(i, Len(values), w))
       * windowSum(values, i, w)]

\* STEP 1: val - mean, times the length
normalized(ppgData) ==
  [i \in 1..Len(ppgData) |-> Len(ppgData) * ppgData[i] - SumSeq(ppgData)]

\* STEP 3: the differences, a zero put in front
derivative(smoothed) ==
  [i \in 1..Len(smoothed) |-> IF i = 1 THEN 0 ELSE smoothed[i] - smoothed[i - 1]]

\* STEP 4
squared(values) == [i \in 1..Len(values) |-> values[i] * values[i]]

filterSignal(ppgData) ==
  movingAverage(squared(derivative(movingAverage(normalized(ppgData), 5))), 8)

\* the array passed to filterSignal, after the call: it is read by reduce
\* and map only
ppgDataAfter(ppgData) == ppgData

\* the array passed to detectPeaks, after the call: the sort works on the
\* copy [...filteredSignal]
filteredSignalSorted(filteredSignal) ==
  [i \in 1..Len(filteredSignal) |->
     CHOOSE v \in {filteredSignal[k] : k \in DOMAIN filteredSignal} :
       /\ Cardinality({k \in DOMAIN filteredSignal : filteredSignal[k] > v}) < i
       /\ Cardinality({k \in DOMAIN filteredSignal : filteredSignal[k] >= v}) >= i]

filteredSignalAfter(filteredSignal) == filteredSignal

(***************************************************************************)
(* Functions applied on their own: the zone lookup, the rate of a window   *)
(* from its peaks (both engines) and detectPeaks.  The lookup is applied   *)
(* to every rate up to MaxFinalRate, beyond the rates the engine passes.   *)
(***************************************************************************)

\* peak lists of a window: none to two peaks, steady pulses, and lists for
\* which the interval method or the span method yields no rate
RatePeakLists ==
  { NoPeaks, <<100>>, <<100, 225>>, <<100, 225, 350>>,
    SlowPeaks, CalmPeaks, FastPeaks,
    <<100, 140, 540>>, <<100, 140, 540, 580>>,
    periodicPeaks(100, 40, 6), periodicPeaks(100, 300, 3),
    periodicPeaks(10, 301, 3),
    <<100, 225, 515>>, <<100, 140, 265, 390>> }

\* places of a signal where a spike may stand
SpikePlaces ==
  {1, 2, 20, 45, SignalLength - 42, SignalLength - 4, SignalLength - 3}

\* no spike, a spike the lower threshold only lets pass, a high spike
SpikeHeights == {0, 3, 8}

\* a signal: 0 with a plateau of 30 values of 10 near its end, and spikes
signalOf(heights) ==
  [k \in 1..SignalLength |->
     IF (k - 1) \in SpikePlaces /\ heights[k - 1] > 0 THEN heights[k - 1]
     ELSE IF (k - 1) \in (SignalLength - 40)..(SignalLength - 11) THEN 10
     ELSE 0]

\* raw windows: samples at the contact threshold or one above it
RawWindows == [1..FilterLength -> {LowSample, HighSample}]

FunctionInputs ==
  {[fn |-> "zone", heartRate |-> n] : n \in 0..MaxFinalRate}
  \cup {[fn |-> "filter", signal |-> w] : w \in RawWindows}
  \cup {[fn |-> "correct", heartRate |-> n, batches |-> b] :
           n \in MIN_RATE..MAX_RATE, b \in 1..MaxCorrected}
  \cup {r \in {[fn |-> "rate", peaks |-> p, length |-> n] :
                  p \in RatePeakLists, n \in {MIN_WINDOW, MAX_BUFFER_SIZE}} :
          peaksWellFormed(r.peaks, r.length)}
  \cup {[fn |-> "peaks", signal |-> signalOf(h)] : h \in [SpikePlaces -> SpikeHeights]}

\* the zone of a final rate is looked up
lookUpZone ==
  /\ input.fn = "zone" /\ output.fn = "none"
  /\ output' = [fn |-> "zone", zone |-> HR_ZONES[zoneIndex(input.heartRate)]]
  /\ UNCHANGED <<engineVars, clock, response, call, serverVars, hrState, hrCall, input>>

\* HR_CONSTANTS of the engine with jump limiting
MIN_PEAKS == 3
MIN_HR == 40
MAX_HR == 200

\* an interval in seconds, (peaks[i] - peaks[i-1]) / SAMPLE_RATE, lies in
\* [60 / MAX_HR, 60 / MIN_HR]; the interval is kept in samples
secondsIntervalIsValid(interval) ==
  interval * MAX_HR >= 60 * SAMPLE_RATE /\ interval * MIN_HR <= 60 * SAMPLE_RATE

secondsValidIntervals(peaks) ==
  SelectSeq(peakIntervals(peaks), secondsIntervalIsValid)

\* intervals no further than 2.5 times the median absolute deviation from
\* the median of the sorted intervals
madFiltered(sorted) ==
  LET medianInterval == sorted[Len(sorted) \div 2 + 1]
      absoluteDeviations ==
        SortAsc([i \in DOMAIN sorted |-> Abs(sorted[i] - medianInterval)])
      mad == absoluteDeviations[Len(absoluteDeviations) \div 2 + 1]
      near(interval) == 2 * Abs(interval - medianInterval) <= 5 * mad
  IN SelectSeq(sorted, near)

\* calculateHeartRate of the engine with jump limiting, from the peaks of
\* its window: Math.round(60 / median), the median in seconds; gaps of
\* 48, 80 and 144 samples, whose rate is a tie, are not among the inputs
medianRate(peaks) ==
  IF Len(peaks) < MIN_PEAKS THEN 0
  ELSE LET valid == secondsValidIntervals(peaks)
       IN IF Len(valid) < 2 THEN 0
          ELSE LET filteredIntervals == madFiltered(SortAsc(valid))
               IN IF Len(filteredIntervals) < 2 THEN 0
                  ELSE RoundDiv(60 * SAMPLE_RATE,
                                filteredIntervals[Len(filteredIntervals) \div 2 + 1])

\* a rate the three methods can yield is corrected as in batch
\* input.batches of an acquisition
correctRate ==
  /\ input.fn = "correct" /\ output.fn = "none"
  /\ output' = [fn |-> "correct",
                heartRate |-> initialCorrection(input.heartRate, input.batches)]
  /\ UNCHANGED <<engineVars, clock, response, call, serverVars, hrState, hrCall, input>>

\* the rate of a window is calculated from its peaks, by each engine
rateFromPeaks ==
  /\ input.fn = "rate" /\ output.fn = "none"
  /\ output' = [fn |-> "rate",
                window |-> IF input.length >= MIN_WINDOW
                           THEN calculateRate(input.peaks, input.length) ELSE 0,
                batch |-> batchRate(input.peaks, input.length),
                valid |-> validIntervals(input.peaks),
                interval |-> intervalMethod(input.peaks),
                kept |-> secondsValidIntervals(input.peaks),
                median |-> medianRate(input.peaks)]
  /\ UNCHANGED <<engineVars, clock, response, call, serverVars, hrState, hrCall, input>>

\* peaks are looked for in a signal, up to MaxRuns times in the same array
findPeaks ==
  /\ input.fn = "peaks"
  /\ (IF output.fn = "none" THEN 0 ELSE output.runs) < MaxRuns
  /\ output' = [fn |-> "peaks", peaks |-> detectPeaks(input.signal),
                runs |-> IF output.fn = "none" THEN 1 ELSE output.runs + 1]
  /\ input' = [input EXCEPT !.signal = filteredSignalAfter(@)]
  /\ UNCHANGED <<engineVars, clock, response, call, serverVars, hrState, hrCall>>

\* a raw window is conditioned, up to MaxRuns times in the same array
conditionSignal ==
  /\ input.fn = "filter"
  /\ (IF output.fn = "none" THEN 0 ELSE output.runs) < MaxRuns
  /\ output' = [fn |-> "filter", signal |-> filterSignal(input.signal),
                runs |-> IF output.fn = "none" THEN 1 ELSE output.runs + 1]
  /\ input' = [input EXCEPT !.signal = ppgDataAfter(@)]
  /\ UNCHANGED <<engineVars, clock, response, call, serverVars, hrState, hrCall>>

\* the engine takes its first batch, a minute later, while an array is held
engineTakesBatch ==
  /\ input.fn \in {"peaks", "filter"}
  /\ call = NoCall
  /\ processHeartRate("good", LongGap, {NoPeaks})

(***************************************************************************)
(* Specifications                                                          *)
(***************************************************************************)
vars == <<engineVars, clock, response, call, serverVars, sideVars>>

SideInit ==
  /\ hrState = HrStateInit
  /\ hrCall = NoHrCall
  /\ input = [fn |-> "none"]
  /\ output = [fn |-> "none"]

Init == EngineInit /\ ServerInit /\ SideInit

\* the contact scenario: any batch, contact found and lost again
Next ==
  \E id \in BatchIds, gap \in Gaps :
     clock + gap <= MaxClock /\ processHeartRate(id, gap, {NoPeaks, CalmPeaks})

Spec == Init /\ [][Next]_vars

\* the warm-up scenario: contact batches only, minutes passing between calls
NextWarmup ==
  \E id \in ContactBatchIds, gap \in WarmupGaps :
     clock + gap <= MaxWarmupClock
     /\ processHeartRate(id, gap, {NoPeaks, FastPeaks})

SpecWarmup == Init /\ [][NextWarmup]_vars

\* the steady scenario: contact throughout, a batch every 500 ms, the pulse
\* found in the window changing from batch to batch
NextSteady ==
  processHeartRate("good", BatchPeriod,
                   {NoPeaks, SlowPeaks, CalmPeaks, BriskPeaks, FastPeaks})

SpecSteady == Init /\ [][NextSteady]_vars

\* the jump-limiting scenario: a second of samples per call; what the signal
\* path makes of the buffer changes from call to call
NextLimiting ==
  \E gap \in CalculationGaps, signalQuality \in SignalQualities :
     \E calculation \in Calculations, trend \in Trends :
        /\ hrCall.count < MaxCalculations
        /\ limitingProcessHeartRate(SecondOfSamples, clock + gap, signalQuality,
                                    calculation, trend)

SpecLimiting == Init /\ [][NextLimiting]_vars

\* functions applied on their own to each of their inputs
InitFunctions ==
  /\ EngineInit /\ ServerInit
  /\ hrState = HrStateInit /\ hrCall = NoHrCall
  /\ input \in FunctionInputs
  /\ output = [fn |-> "none"]

NextFunctions ==
  \/ lookUpZone \/ rateFromPeaks \/ findPeaks \/ conditionSignal
  \/ engineTakesBatch \/ correctRate

SpecFunctions == InitFunctions /\ [][NextFunctions]_vars

\* the batch scenario: contact batches of three sizes within one
\* millisecond, single low batches between them (contact is not lost), the
\* pulse found in the window changing from batch to batch
NextBatches ==
  \E id \in {"good", "quarter", "odd", "edgeLow"} :
     /\ id = "edgeLow" => fingerDetectedState /\ consecutiveLowSignalBatches = 0
     /\ processHeartRate(id, 0, {NoPeaks, CalmPeaks, FastPeaks})

SpecBatches == Init /\ [][NextBatches]_vars

\* the window scenario: batches of differing content are taken in by the
\* engine with contact hysteresis and by the engine with jump limiting
WindowTakesBatch ==
  \E id \in {"good", "mixed", "odd", "edgeLow"} :
     processHeartRate(id, 0, {NoPeaks})

BufferTakesBatch ==
  \E id \in {"short", "mixed"} :
     /\ hrCall.count < MaxCalculations
     /\ limitingProcessHeartRate(Batches[id].data, clock, 600,
                                 [heartRate |-> 70, confidence |-> 1000], "stable")

NextWindow == WindowTakesBatch \/ BufferTakesBatch

SpecWindow == Init /\ [][NextWindow]_vars

\* the server scenario: requests of two devices to both endpoints, and the
\* interval timer
RealtimeRequest ==
  \E device \in DeviceIds, payload \in PayloadIds, gap \in ServerGaps :
     /\ served.requests < MaxRequests
     /\ clock + gap <= MaxServerClock
     /\ postRealtimeData(device, payload, clock + gap)

SensorRequest ==
  \E device \in DeviceIds, payload \in PayloadIds, gap \in ServerGaps :
     \E chunk \in ChunkValues, total_chunks \in TotalValues, fsFails \in BOOLEAN :
        /\ served.requests < MaxRequests
        /\ clock + gap <= MaxServerClock
        /\ postSensorData(device, payload, chunk, total_chunks, clock + gap, fsFails)

TimerFires ==
  \E gap \in TimerGaps :
     /\ clock + gap <= MaxServerClock
     /\ cleanupInactiveUploads(clock + gap)

NextServer == RealtimeRequest \/ SensorRequest \/ TimerFires

\* the stream scenario: one device posts a batch every BatchPeriod ms
NextStream ==
  \E payload \in StreamPayloadIds :
     /\ served.requests < MaxStream
     /\ postRealtimeData("esp32-a", payload, clock + BatchPeriod)

SpecStream == Init /\ [][NextStream]_vars

\* the upload scenario: one device posts chunks of uploads, in any order
\* and with or without the chunk fields, and the interval timer fires
UploadRequest ==
  \E chunk \in ChunkValues, total_chunks \in TotalValues, fsFails \in BOOLEAN :
     /\ served.requests < MaxUploadRequests
     /\ postSensorData("esp32-a", "calm", chunk, total_chunks, clock + ServerGap, fsFails)

NextUpload == UploadRequest \/ TimerFires

SpecUpload == Init /\ [][NextUpload]_vars

\* the debounce scenario: batches with and without contact and batches
\* with no or too little data, one after the other within one millisecond
NextDebounce ==
  \E id \in {"good", "edgeLow", "short", "null", "empty"} :
     processHeartRate(id, 0, {NoPeaks, CalmPeaks})

SpecDebounce == Init /\ [][NextDebounce]_vars

\* either engine is the one in use: the engine with the sample window is
\* fed the batches of NextBatches, or the exported engine the stream
NextEither ==
  \/ served.requests = 0 /\ NextBatches
  \/ call = NoCall /\ NextStream

SpecEither == Init /\ [][NextEither]_vars

SpecServer == Init /\ [][NextServer]_vars

(***************************************************************************)
(* Properties of the contact detector                                      *)
(***************************************************************************)
\* the batch has at least MIN_SAMPLES samples
isFullBatch(id) ==
  ~Batches[id].isNull /\ lengthOf(Batches[id].data) >= MIN_SAMPLES

\* a full batch in which 70% or more of the samples are <= 18000
isLowBatch(id) ==
  /\ isFullBatch(id)
  /\ belowThresholdCount(Batches[id].data) * 100
        >= LOW_PERCENT * lengthOf(Batches[id].data)

\* a full batch in which fewer than 70% of the samples are <= 18000
isContactBatch(id) == isFullBatch(id) /\ ~isLowBatch(id)

\* C1: with contact established, the first low batch leaves fingerDetected
\* true in the result, the second consecutive low batch makes it false
C1_ContactHysteresis ==
  [][ (fingerDetectedState /\ isLowBatch(call'.batch)) =>
        IF consecutiveLowSignalBatches = 0
        THEN response'.fingerDetected /\ fingerDetectedState'
        ELSE ~response'.fingerDetected /\ ~fingerDetectedState' ]_vars

\* contact was lost on the second consecutive low batch
C1_Witness ==
  /\ call.returned = "lost"
  /\ call.lowBatches = 2
  /\ ~response.fingerDetected

\* C2: a call with a null batch or one of fewer than MIN_SAMPLES samples
\* returns heartRate 0, fingerDetected false and phase no_signal
C2_ShortBatchNoSignal ==
  (call.batch # "none" /\ ~isFullBatch(call.batch)) =>
     /\ response.heartRate = 0
     /\ response.fingerDetected = FALSE
     /\ response.phase = "no_signal"

\* a short batch arrived while a stable rate was being displayed
C2_Witness ==
  /\ call.batch \in {"null", "short"}
  /\ fingerDetectedState /\ isStable
  /\ batchesReceived >= MIN_BATCHES_FOR_DISPLAY
  /\ lastDisplayedHeartRate > 0

\* C3: a result produced with contact while fewer than 5 batches were
\* counted reports heartRate 0 and phase acquiring
C3_AcquiringReportsZero ==
  (call.returned = "result" /\ batchesReceived < MIN_BATCHES_FOR_DISPLAY) =>
     /\ response.heartRate = 0
     /\ response.phase = "acquiring"

\* a rate was computed during the acquiring phase and not reported
C3_Witness ==
  /\ call.returned = "result"
  /\ batchesReceived < MIN_BATCHES_FOR_DISPLAY
  /\ call.calculatedRaw > 0 /\ response.debug.finalRate > 0
  /\ response.heartRate = 0

\* C4: the call that finds contact lost returns the no-signal result, has
\* computed nothing, and leaves the listed state at its initial values
C4_LostResetsState ==
  call.returned = "lost" =>
     /\ response.heartRate = 0 /\ response.fingerDetected = FALSE
     /\ response.phase = "no_signal"
     /\ call.calculatedRaw = 0 /\ response.debug = <<>> /\ windowPeaks = <<>>
     /\ sampleBuffer = <<>>
     /\ batchesReceived = 0
     /\ consecutiveLowSignalBatches = 0
     /\ consecutiveHighZoneReadings = 0
     /\ firstDisplayTime = 0
     /\ lastDisplayedHeartRate = 0
     /\ isStable = FALSE
     /\ isAcquiring = FALSE
     /\ fingerDetectedState = FALSE

\* contact was lost after a rate had been displayed
C4_Witness ==
  /\ call.returned = "lost"
  /\ lastDisplayedValue \notin {"No signal", "Acquiring signal", "Detecting pulse"}

\* C5: the call that starts a new acquisition leaves no reading of an
\* earlier acquisition in the history
C5_HistoryResetOnContact ==
  [][ (~fingerDetectedState /\ fingerDetectedState') =>
        recentHeartRates' = <<>> ]_vars

\* C6: the call that flips contact to true starts the acquisition now and
\* ends with one batch counted and only that batch in the window
C6_NewAcquisition ==
  [][ (~fingerDetectedState /\ fingerDetectedState') =>
        /\ acquisitionStartTime' = clock'
        /\ batchesReceived' = 1
        /\ sampleBuffer' = Batches[call'.batch].data
        /\ firstDisplayTime' = 0
        /\ consecutiveHighZoneReadings' =
             (IF response'.debug.calculatedRate >= VIGOROUS_THRESHOLD THEN 1 ELSE 0) ]_vars

\* an acquisition started later than the first call, after an earlier one
C6_Witness ==
  /\ call.returned = "result"
  /\ batchesReceived = 1
  /\ acquisitionStartTime = clock /\ clock > ClockOrigin
  /\ recentHeartRates # <<>>

\* C7: a contact batch sets the contact state and clears the low-batch
\* counter; a low batch increments the counter by one
C7_ContactAndLowCounter ==
  [][ /\ isContactBatch(call'.batch) =>
           /\ fingerDetectedState' /\ response'.fingerDetected
           /\ consecutiveLowSignalBatches' = 0
      /\ isLowBatch(call'.batch) =>
           /\ call'.lowBatches = consecutiveLowSignalBatches + 1
           /\ response'.fingerDetected =>
                consecutiveLowSignalBatches' = consecutiveLowSignalBatches + 1 ]_vars

\* a low batch was absorbed: the counter is 1 and contact is kept
C7_Witness ==
  /\ call.returned = "result"
  /\ isLowBatch(call.batch)
  /\ consecutiveLowSignalBatches = 1
  /\ response.debug.consecutiveLowSignalBatches = 1

(***************************************************************************)
(* Properties of the warm-up restriction                                   *)
(***************************************************************************)
\* max(5, round(5 + (60000 - elapsed) / 15000)), by the elapsed time
streakNeededAt(elapsed) ==
  IF elapsed <= 7500 THEN 9
  ELSE IF elapsed <= 22500 THEN 8
  ELSE IF elapsed <= 37500 THEN 7
  ELSE IF elapsed <= 52500 THEN 6
  ELSE 5

\* C9: in the first 60 s after the first display a final rate of 130 or
\* more without the required streak is displayed as at most 125 and at
\* most 5 above the previous displayed rate; a reported rate of 130 or
\* more in that time has the required streak
C9_FirstMinuteSuppression ==
  [][ call'.returned = "result" =>
        LET elapsed == response'.debug.timeSinceFirstDisplay
            streak == consecutiveHighZoneReadings'
            displayed == response'.debug.finalRate
        IN /\ (/\ call'.consensus >= 130
               /\ elapsed < 60000
               /\ streak < streakNeededAt(elapsed)) =>
                  /\ displayed <= 125
                  /\ lastDisplayedHeartRate > 0 =>
                       displayed <= lastDisplayedHeartRate + 5
           /\ (elapsed < 60000 /\ response'.heartRate >= 130) =>
                  streak >= streakNeededAt(elapsed) ]_vars

\* a final rate of 130 or more was held at 125 within the first minute
C9_Witness ==
  /\ call.returned = "result"
  /\ call.consensus >= 130
  /\ firstDisplayTime > 0
  /\ response.debug.timeSinceFirstDisplay < 60000
  /\ consecutiveHighZoneReadings \in 1..4
  /\ response.heartRate = 125

\* C10: from 60 s to 180 s a final rate of 130 or more with a streak below
\* 5 is displayed as at most 8 above the previous displayed rate and is not
\* held lower than that (no ceiling at 125); from 180 s on the final rate
\* is displayed as it is
C10_LaterSuppression ==
  [][ call'.returned = "result" =>
        LET elapsed == response'.debug.timeSinceFirstDisplay
            displayed == response'.debug.finalRate
        IN /\ (/\ call'.consensus >= 130
               /\ elapsed >= 60000 /\ elapsed < 180000
               /\ consecutiveHighZoneReadings' < 5
               /\ lastDisplayedHeartRate > 0) =>
                  /\ displayed <= lastDisplayedHeartRate + 8
                  /\ displayed >= Min2(call'.consensus, lastDisplayedHeartRate + 8)
           /\ elapsed >= 180000 => displayed = call'.consensus ]_vars

\* after the first minute a rate above the 125 ceiling was displayed, held
\* 8 above the previous one
C10_Witness ==
  /\ call.returned = "result"
  /\ response.debug.timeSinceFirstDisplay >= 60000
  /\ response.debug.timeSinceFirstDisplay < 180000
  /\ consecutiveHighZoneReadings < 5
  /\ response.heartRate > 125
  /\ response.heartRate < call.consensus

(***************************************************************************)
(* Properties of the server                                                *)
(***************************************************************************)
\* C8: what the server answers to the data of a device is what an engine
\* fed only that device's data answers: same heartRate, fingerDetected and
\* phase, same batch counter
C8_DeviceIsolation ==
  served.hrInfo # NoInfo =>
     /\ served.hrInfo.heartRate = served.own.heartRate
     /\ served.hrInfo.fingerDetected = served.own.fingerDetected
     /\ served.hrInfo.phase = served.own.phase
     /\ heartRateProcessor.batchesReceived
          = ownProcessor[served.device].batchesReceived

(***************************************************************************)
(* Properties of the stabilizer                                            *)
(***************************************************************************)
\* the largest and the smallest of the readings kept
largestReading(recent) ==
  CHOOSE x \in {recent[i] : i \in DOMAIN recent} : \A i \in DOMAIN recent : recent[i] <= x

smallestReading(recent) ==
  CHOOSE x \in {recent[i] : i \in DOMAIN recent} : \A i \in DOMAIN recent : recent[i] >= x

\* no two of the last up to 4 readings are more than 15 apart
readingsAgree(recent) ==
  recent = <<>> \/ largestReading(Take(recent, 4)) - smallestReading(Take(recent, 4)) <= 15

\* C11 as stated: after a batch processed with contact, isStable is true
\* exactly if no two of the last up to 4 readings are more than 15 apart,
\* also when the history holds only 1 or 2 readings
C11_StableIffReadingsAgree ==
  (call.returned = "result" /\ recentHeartRates # <<>>) =>
     /\ isStable <=> readingsAgree(recentHeartRates)
     /\ response.debug.stable = isStable

\* C11 amended: after a batch processed with contact, isStable is true
\* exactly if the history holds at least 3 readings and no two of the last
\* up to 4 are more than 15 apart
C11_StableIffThreeAgree ==
  call.returned = "result" =>
     /\ isStable <=> (Len(recentHeartRates) >= 3 /\ readingsAgree(recentHeartRates))
     /\ response.debug.stable = isStable

\* four different readings within 15 of each other were found stable
C11_Witness ==
  /\ call.returned = "result"
  /\ Len(recentHeartRates) = 4
  /\ largestReading(recentHeartRates) > smallestReading(recentHeartRates)
  /\ readingsAgree(recentHeartRates)
  /\ isStable

\* C12: a result produced with contact once 5 batches were counted has
\* phase tracking when isStable holds and stabilizing when it does not,
\* never acquiring
C12_PhaseFollowsStability ==
  (call.returned = "result" /\ batchesReceived >= 5) =>
     /\ response.fingerDetected
     /\ isStable => response.phase = "tracking"
     /\ ~isStable => response.phase = "stabilizing"
     /\ response.phase # "acquiring"

\* the fifth batch of an acquisition was answered stabilizing: the readings
\* are too far apart
C12_Witness ==
  /\ call.returned = "result"
  /\ batchesReceived = 5
  /\ Len(recentHeartRates) = 4 /\ ~readingsAgree(recentHeartRates)
  /\ response.phase = "stabilizing"

\* Math.round of the mean of the last up to 4 readings
roundedMean(recent) ==
  LET last == Take(recent, 4)
  IN (2 * SumSeq(last) + Len(last)) \div (2 * Len(last))

\* the reading in the middle of the sorted readings (the upper one of two)
medianReading(recent) ==
  CHOOSE x \in {recent[i] : i \in DOMAIN recent} :
    /\ Cardinality({i \in DOMAIN recent : recent[i] < x}) <= Len(recent) \div 2
    /\ Cardinality({i \in DOMAIN recent : recent[i] <= x}) > Len(recent) \div 2

C18_PlausibleRatesOnly ==
  call.returned = "result" =>
     /\ \A i \in DOMAIN recentHeartRates : recentHeartRates[i] \in 40..200
     /\ response.heartRate = 0 \/ response.heartRate \in 40..200

(***************************************************************************)
(* Properties of the jump limitation and the display smoothing             *)
(***************************************************************************)
\* x held within lo..hi
clamped(x, lo, hi) == IF x < lo THEN lo ELSE IF x > hi THEN hi ELSE x

\* C14: with a prior accepted rate, the accepted reading is the calculated
\* rate clamped to prior - 15 .. prior + 15; consecutive entries of the
\* history are at most 15 apart; the confidence stored is 0.7 times the
\* calculated one exactly when the rate was clamped
C14_JumpLimiting ==
  [][ hrCall'.returned = "calculated" =>
        LET raw == hrCall'.calculation.heartRate
            prior == hrState.lastHeartRate
            history == hrState'.heartRateHistory
            accepted == history[1]
        IN /\ prior > 0 => accepted = clamped(raw, prior - 15, prior + 15)
           /\ prior = 0 => accepted = raw
           /\ hrState'.lastHeartRate = accepted
           /\ \A i \in 1..(Len(history) - 1) : Abs(history[i] - history[i + 1]) <= 15
           /\ 10 * hrState'.confidenceScores[1] =
                (IF prior > 0 /\ accepted # raw THEN 7 ELSE 10)
                  * hrCall'.calculation.confidence
           /\ hrCall'.value.quality = hrState'.confidenceScores[1] ]_vars

\* prior 70, calculated 95: 85 was accepted with 0.7 of the confidence
C14_Witness ==
  /\ hrCall.returned = "calculated"
  /\ hrCall.calculation.heartRate = 95
  /\ Len(hrState.heartRateHistory) >= 2
  /\ hrState.heartRateHistory[2] = 70
  /\ hrState.heartRateHistory[1] = 85
  /\ hrState.confidenceScores[1] = 350

\* C15: the first accepted reading while the smoothed rate is 0 becomes the
\* smoothed rate; a later one moves it to the integer nearest to
\* 0.85 smoothed + 0.15 reading, which lies between the two; the smoothed
\* rate is the heartRate returned
C15_DisplaySmoothing ==
  [][ hrCall'.returned = "calculated" =>
        LET previous == hrState.smoothedHeartRate
            limited == hrState'.lastHeartRate
            smoothed == hrState'.smoothedHeartRate
        IN /\ previous = 0 => smoothed = limited
           /\ previous > 0 =>
                /\ Abs(100 * smoothed - (85 * previous + 15 * limited)) <= 50
                /\ smoothed >= Min2(previous, limited)
                /\ smoothed <= Max2(previous, limited)
           /\ hrCall'.value.heartRate = smoothed ]_vars

\* a later reading moved the smoothed rate, by less than the reading asked
C15_Witness ==
  /\ hrCall.returned = "calculated"
  /\ Len(hrState.heartRateHistory) >= 2
  /\ hrState.smoothedHeartRate # hrState.lastHeartRate
  /\ hrState.smoothedHeartRate # hrState.heartRateHistory[2]
  /\ hrCall.value.heartRate = hrState.smoothedHeartRate

(***************************************************************************)
(* Properties of the zone lookup, the rate cascade and the peak detector   *)
(***************************************************************************)
\* the zone of the table for a rate of 1 to 240
zoneNameFor(bpm) ==
  IF bpm <= 90 THEN "Rest"
  ELSE IF bpm <= 110 THEN "Light"
  ELSE IF bpm <= 130 THEN "Moderate"
  ELSE IF bpm <= 150 THEN "Vigorous"
  ELSE IF bpm <= 170 THEN "High"
  ELSE "Maximum"

\* C16: a final rate of 1 to 240 is given the first zone of the table whose
\* upper bound is at least the rate; a rate of 0 is given Rest
C16_ZoneLookup ==
  output.fn = "zone" =>
     /\ input.heartRate \in 1..240 =>
          /\ output.zone.name = zoneNameFor(input.heartRate)
          /\ output.zone.upperLimit >= input.heartRate
     /\ input.heartRate = 0 => output.zone.name = "Rest"

\* 131 was looked up: Vigorous
C16_Witness ==
  /\ output.fn = "zone"
  /\ input.heartRate = 131
  /\ output.zone.name = "Vigorous"

firstRate(rates) ==
  IF \E k \in DOMAIN rates : rates[k] # 0
  THEN rates[CHOOSE k \in DOMAIN rates :
               rates[k] # 0 /\ \A j \in 1..(k - 1) : rates[j] = 0]
  ELSE 0

\* the cascade: no rate below minPeaks peaks; else the interval result, else
\* the span result with at least spanPeaks peaks, else the duration result,
\* each taken only if it lies in 40..200
cascade(peaks, length, minPeaks, spanPeaks) ==
  IF Len(peaks) < minPeaks THEN 0
  ELSE firstRate(<< intervalMethod(peaks),
                    IF Len(peaks) >= spanPeaks THEN spanMethod(peaks) ELSE 0,
                    durationMethod(peaks, length) >>)

\* C19 as stated: the rate computed from the peaks is the cascade with at
\* least 3 peaks and the span method from 4 peaks on, in either engine
C19_RateCascade ==
  output.fn = "rate" =>
     /\ output.window = cascade(input.peaks, input.length, 3, 4)
     /\ output.batch = cascade(input.peaks, input.length, 3, 4)

\* C19 amended: the engine on the 1000-sample window computes the cascade
\* with at least 3 peaks and the span method from 4 peaks on; the exported
\* engine computes it with at least 2 peaks and the span method from 3 on;
\* the rate is 0 or in 40..200
C19_RateCascadePerEngine ==
  output.fn = "rate" =>
     /\ output.window = cascade(input.peaks, input.length, 3, 4)
     /\ output.batch = cascade(input.peaks, input.length, 2, 3)
     /\ output.window = 0 \/ output.window \in 40..200
     /\ output.batch = 0 \/ output.batch \in 40..200
     /\ Len(input.peaks) < 3 => output.window = 0
     /\ Len(input.peaks) < 2 => output.batch = 0

\* the interval and the span method yielded no rate for six peaks, the
\* duration method did
C19_Witness ==
  /\ output.fn = "rate"
  /\ Len(input.peaks) = 6
  /\ intervalMethod(input.peaks) = 0 /\ spanMethod(input.peaks) = 0
  /\ output.window = durationMethod(input.peaks, input.length)
  /\ output.window \in 40..200

\* C20: the indices detectPeaks returns are strictly increasing and at least
\* 38 apart, lie in 2 .. length - 3, and each is above its two neighbours
\* on each side, also when the loop with the lower threshold has run
C20_PeakInvariant ==
  output.fn = "peaks" =>
     LET peaks == output.peaks
         signal == input.signal
         valueAt(i) == signal[i + 1]
     IN /\ \A k \in 1..(Len(peaks) - 1) :
             peaks[k] < peaks[k + 1] /\ peaks[k + 1] - peaks[k] >= 38
        /\ \A k \in DOMAIN peaks :
             /\ peaks[k] >= 2 /\ peaks[k] < Len(signal) - 2
             /\ \A d \in {-2, -1, 1, 2} : valueAt(peaks[k]) > valueAt(peaks[k] + d)

\* two peaks were found, one of them only by the loop with the lower
\* threshold
C20_Witness ==
  /\ output.fn = "peaks"
  /\ Len(output.peaks) = 2
  /\ thresholdBase(input.signal) > 0
  /\ \E k \in DOMAIN output.peaks :
       2 * input.signal[output.peaks[k] + 1] <= thresholdBase(input.signal)
  /\ \E k \in DOMAIN output.peaks :
       2 * input.signal[output.peaks[k] + 1] > thresholdBase(input.signal)

(***************************************************************************)
(* Properties of the sample window and the history                         *)
(***************************************************************************)
\* the samples of an array, one by one
RECURSIVE samplesIn(_)
samplesIn(a) ==
  IF a = <<>> THEN <<>>
  ELSE [i \in 1..Head(a)[2] |-> Head(a)[1]] \o samplesIn(Tail(a))

\* the most recent up to limit samples of previous followed by batch
mostRecent(previous, batch, limit) ==
  LET all == samplesIn(previous) \o samplesIn(batch)
      n == Len(all)
  IN SubSeq(all, n - Min2(limit, n) + 1, n)

\* C21: a call that takes a batch in leaves as window the most recent
\* min(1000, n) samples of the previous window followed by the batch, in
\* the engine with contact hysteresis and in the engine with jump limiting
C21_SampleWindow ==
  [][ /\ (call'.returned = "result" /\ batchesReceived' # batchesReceived) =>
           /\ samplesIn(sampleBuffer')
                = mostRecent(sampleBuffer, Batches[call'.batch].data, 1000)
           /\ lengthOf(sampleBuffer') <= 1000
      /\ hrCall'.count = hrCall.count + 1 =>
           /\ samplesIn(hrState'.ppgBuffer)
                = mostRecent(hrState.ppgBuffer, hrCall'.data, 1000)
           /\ lengthOf(hrState'.ppgBuffer) <= 1000 ]_vars

\* both windows are full, samples were dropped from their fronts, and what
\* is left begins inside a batch
C21_Witness ==
  /\ call.returned = "result" /\ call.batch = "mixed" /\ batchesReceived = 3
  /\ lengthOf(sampleBuffer) = 1000
  /\ sampleBuffer[1] = <<LowSample, 100>>
  /\ hrCall.count = 3 /\ hrCall.data = Batches["short"].data
  /\ lengthOf(hrState.ppgBuffer) = 1000
  /\ hrState.ppgBuffer[1] = <<LowSample, 250>>

\* C22: the history never holds more than 4 readings; a call whose computed
\* rate is positive puts that rate in front and drops the oldest reading
\* past 4, any other call leaves the history as it is
C22_HistoryBounded ==
  [][ /\ Len(recentHeartRates') <= 4
      /\ IF call'.returned = "result" /\ response'.debug.calculatedRate > 0
         THEN recentHeartRates'
                = Take(<<response'.debug.calculatedRate>> \o recentHeartRates, 4)
         ELSE recentHeartRates' = recentHeartRates ]_vars

\* a fifth positive reading in a row was put in front of a full history
C22_Witness ==
  /\ call.returned = "result"
  /\ consecutiveHighZoneReadings >= 5
  /\ Len(recentHeartRates) = 4
  /\ recentHeartRates[1] = response.debug.calculatedRate

(***************************************************************************)
(* Properties of the results                                               *)
(***************************************************************************)
\* C23: with contact established, a call returns the no-signal result only
\* when its batch is the second consecutive low one, and that call leaves
\* all engine state reset
C23_NoSignalOnlyByDebouncedLoss ==
  [][ (fingerDetectedState /\ response'.phase = "no_signal") =>
        /\ call'.returned = "lost" /\ call'.lowBatches = 2
        /\ recentHeartRates' = <<>>
        /\ sampleBuffer' = <<>>
        /\ batchesReceived' = 0
        /\ consecutiveLowSignalBatches' = 0
        /\ consecutiveHighZoneReadings' = 0
        /\ firstDisplayTime' = 0
        /\ lastDisplayedHeartRate' = 0
        /\ ~isStable' /\ ~isAcquiring' /\ ~fingerDetectedState' ]_vars

\* the fields of a result record
ResultFields ==
  { "heartRate", "fingerDetected", "display_value", "display_details", "zone",
    "zoneColor", "quality", "confidence", "trend", "phase", "debug" }

\* C24: every call returns a result record, whatever the batch and the
\* state; heartRate is an integer >= 0, fingerDetected a Boolean, phase one
\* of the four phases, and no_signal exactly when fingerDetected is false
C24_WellFormedResult ==
  /\ DOMAIN response = ResultFields
  /\ response.heartRate \in Nat
  /\ response.fingerDetected \in BOOLEAN
  /\ response.phase \in {"no_signal", "acquiring", "stabilizing", "tracking"}
  /\ response.phase = "no_signal" <=> ~response.fingerDetected
  /\ call.batch # "none" => call.returned \in {"short", "lost", "result"}

\* an empty array arrived while a stable rate was tracked
C24_Witness ==
  /\ call.batch = "empty" /\ call.returned = "short"
  /\ response.phase = "no_signal" /\ ~response.fingerDetected
  /\ isStable /\ lastDisplayedHeartRate > 0

(***************************************************************************)
(* Properties of the request validation                                    *)
(***************************************************************************)
\* C25: a request to either endpoint whose data array is empty, or that has
\* no device id, is answered 400; the engine is not called, nothing is
\* broadcast and no upload or file changes
C25_IngressValidates ==
  [][ ( /\ served'.requests = served.requests + 1
        /\ \/ served'.device = ""
           \/ Payloads[served'.payload].isArray
                /\ Payloads[served'.payload].data = <<>> ) =>
        /\ served'.status = 400
        /\ served'.hrInfo = NoInfo
        /\ UNCHANGED <<heartRateProcessor, realtimeData, lastMessage,
                       activeUploads, files>> ]_vars

gapsWithin(peaks, low, high) ==
  LET within(interval) == interval >= low /\ interval <= high
  IN SelectSeq(peakIntervals(peaks), within)

\* the rate of the mean of gaps lies in 40..200
meanRatePlausible(gaps) ==
  LET rate == RoundDiv(60 * 150 * Len(gaps), SumSeq(gaps))
  IN rate >= 40 /\ rate <= 200

\* C27 as stated: the interval method uses the peak-to-peak gaps within
\* [45, 225] samples only, and yields a rate only when at least 2 of them
\* remain
C27_IntervalMethod ==
  output.fn = "rate" =>
     /\ output.valid = gapsWithin(input.peaks, 45, 225)
     /\ output.interval # 0 => Len(output.valid) >= 2
     /\ output.kept = gapsWithin(input.peaks, 45, 225)
     /\ output.median # 0 => Len(output.kept) >= 2

\* C27 amended: the interval method of the engine on the 1000-sample window
\* and of the exported engine uses the gaps within [37, 300] samples and
\* yields a rate when at least 1 of them remains and the rate of their mean
\* lies in 40..200; the engine with jump limiting uses the gaps within
\* [45, 225] samples and yields no rate when fewer than 2 of them remain
C27_IntervalMethodPerEngine ==
  output.fn = "rate" =>
     /\ output.valid = gapsWithin(input.peaks, 37, 300)
     /\ output.interval # 0 <=>
          (Len(output.valid) >= 1 /\ meanRatePlausible(output.valid))
     /\ output.kept = gapsWithin(input.peaks, 45, 225)
     /\ output.median # 0 => (Len(output.kept) >= 2 /\ Len(input.peaks) >= 3)

\* of the gaps 125 and 290 both count for the interval method of the window,
\* which yields 43, and one only for the engine with jump limiting, which
\* yields no rate
C27_Witness ==
  /\ output.fn = "rate"
  /\ input.peaks = <<100, 225, 515>>
  /\ output.valid = <<125, 290>> /\ output.interval = 43
  /\ output.kept = <<125>> /\ output.median = 0

\* C28: when the first loop accepts fewer than 3 peaks and the threshold
\* base is above 0, the loop with the lower threshold is a full scan: no
\* index of 2 .. length - 3, before or after the peaks of the first loop,
\* that is above its two neighbours on each side, above 0.2 times the
\* threshold base and at least 38 away from every accepted peak is left
\* out, and the peaks are returned in ascending order
C28_RetryIsFullScan ==
  output.fn = "peaks" =>
     LET signal == input.signal
         base == thresholdBase(signal)
         first == scanForPeaks(signal, base, 2, 2, <<>>, -MIN_PEAK_DISTANCE)[1]
         peaks == output.peaks
     IN (Len(first) < 3 /\ base > 0) =>
           /\ \A k \in 1..(Len(peaks) - 1) : peaks[k] < peaks[k + 1]
           /\ \A i \in 2..(Len(signal) - 3) :
                ( /\ isLocalMaximum(signal, i)
                  /\ 5 * signal[i + 1] > base
                  /\ \A k \in DOMAIN peaks :
                       peaks[k] # i => Abs(i - peaks[k]) >= MIN_PEAK_DISTANCE )
                => includes(peaks, i)

(***************************************************************************)
(* Properties of the window threshold and of the high-zone streak          *)
(***************************************************************************)
\* C29: a call that leaves fewer than 750 samples in the window runs no
\* peak detection and no rate computation: its computed rate and its peak
\* count are 0, the history is as before and the high-zone streak is 0; a
\* call that leaves 750 samples or more computes the rate from the peaks
\* of the whole window
C29_DeferredBelowMinWindow ==
  [][ call'.returned = "result" =>
        IF lengthOf(sampleBuffer') < 750
        THEN /\ call'.calculatedRaw = 0
             /\ response'.debug.calculatedRate = 0
             /\ response'.debug.peakCount = 0
             /\ windowPeaks' = <<>>
             /\ recentHeartRates' = recentHeartRates
             /\ consecutiveHighZoneReadings' = 0
        ELSE /\ response'.debug.bufferSize = lengthOf(sampleBuffer')
             /\ response'.debug.peakCount = Len(windowPeaks')
             /\ call'.calculatedRaw =
                  calculateRate(windowPeaks', lengthOf(sampleBuffer')) ]_vars

\* the third batch of an acquisition left 749 samples in the window and no
\* rate was computed
C29_Witness ==
  /\ call.returned = "result"
  /\ lengthOf(sampleBuffer) = 749
  /\ batchesReceived = 3
  /\ response.fingerDetected
  /\ response.debug.calculatedRate = 0 /\ response.debug.peakCount = 0

\* C30: a call that reaches the rate computation adds one to
\* consecutiveHighZoneReadings if the rate it computed is 130 or more, and
\* sets it to 0 if the rate is below 130, 0 for no rate included; so the
\* counter is the number of the most recent such calls in a row with a rate
\* of 130 or more
C30_HighZoneStreak ==
  [][ call'.returned = "result" =>
        /\ response'.debug.calculatedRate >= 130 =>
             consecutiveHighZoneReadings' = consecutiveHighZoneReadings + 1
        /\ response'.debug.calculatedRate < 130 =>
             consecutiveHighZoneReadings' = 0
        /\ response'.debug.consecutiveHighZoneReadings =
             consecutiveHighZoneReadings' ]_vars

\* the last rate computed was 130 or more, and a call on a full window that
\* yielded no rate has set the counter to 0
C30_Witness ==
  /\ call.returned = "result"
  /\ lengthOf(sampleBuffer) >= 750
  /\ response.debug.calculatedRate = 0
  /\ recentHeartRates # <<>> /\ recentHeartRates[1] >= 130
  /\ consecutiveHighZoneReadings = 0

(***************************************************************************)
(* Properties of the exported engine                                       *)
(***************************************************************************)
\* the batch of a payload has at least 100 samples and its maximum is
\* above 18000
maximumAboveThreshold(payload) ==
  IF lengthOf(Payloads[payload].data) < 100 THEN FALSE
  ELSE \E k \in DOMAIN Payloads[payload].data :
          Payloads[payload].data[k][1] > 18000 /\ Payloads[payload].data[k][2] > 0

\* C31: the engine heartRateProcessor.js exports finds the finger exactly
\* when the batch has 100 samples or more and its maximum is above 18000,
\* whatever the batches before; a batch that fails returns no-signal at
\* once and sets batchesReceived to 0, and the next batch that shows the
\* finger is batch 1 of a new acquisition period of 5 batches
C31_StatelessDetection ==
  [][ (served'.requests = served.requests + 1 /\ served'.status = 200) =>
        IF maximumAboveThreshold(served'.payload)
        THEN /\ served'.hrInfo.fingerDetected
             /\ heartRateProcessor'.isAcquiring
             /\ heartRateProcessor'.batchesReceived =
                  heartRateProcessor.batchesReceived + 1
             /\ served.hrInfo.phase \in {"none", "no_signal"} =>
                  /\ heartRateProcessor'.batchesReceived = 1
                  /\ heartRateProcessor'.acquisitionStartTime = clock'
             /\ heartRateProcessor'.batchesReceived < 5 =>
                  /\ served'.hrInfo.phase = "acquiring"
                  /\ served'.hrInfo.heartRate = 0
        ELSE /\ ~served'.hrInfo.fingerDetected
             /\ served'.hrInfo.phase = "no_signal"
             /\ served'.hrInfo.heartRate = 0
             /\ heartRateProcessor'.batchesReceived = 0
             /\ ~heartRateProcessor'.isAcquiring ]_vars

\* after an acquisition of 5 batches and a batch with no sample above the
\* threshold, a batch with a single sample above it is batch 1 again
C31_Witness ==
  /\ served.requests = 7
  /\ served.payload = "spark"
  /\ served.hrInfo.fingerDetected /\ served.hrInfo.phase = "acquiring"
  /\ heartRateProcessor.batchesReceived = 1
  /\ Len(heartRateProcessor.recentHeartRates) = 4

\* what stands in for a rate that could not be computed: the most recent
\* reading if the up to 4 readings are within 15 of each other, else their
\* rounded mean
heldReading(readings) ==
  LET n == IF Len(readings) < 4 THEN Len(readings) ELSE 4
      sum == SumSeq(SubSeq(readings, 1, n))
  IN IF \A i \in 1..n : \A j \in 1..n : readings[i] - readings[j] <= 15
     THEN readings[1]
     ELSE (2 * sum + n) \div (2 * n)

\* C32 as stated: with at least 3 readings in the history and
\* batchesReceived >= 5, a batch processed with contact reports a rate
\* above 0; if no rate could be computed from it, the rate reported is the
\* most recent reading (readings in range) or the mean of the history
C32_ReadingHeld ==
  /\ ( /\ call.returned = "result" /\ response.fingerDetected
       /\ batchesReceived >= 5 /\ Len(recentHeartRates) >= 3 ) =>
        /\ response.heartRate > 0
        /\ response.debug.calculatedRate = 0 =>
             response.heartRate = heldReading(recentHeartRates)
  /\ ( /\ served.requests > 0 /\ served.hrInfo.phase \notin {"none", "no_signal"}
       /\ heartRateProcessor.batchesReceived >= 5
       /\ Len(heartRateProcessor.recentHeartRates) >= 3 ) =>
        /\ served.hrInfo.heartRate > 0
        /\ served.hrInfo.debug.calculatedRate = 0 =>
             served.hrInfo.heartRate = heldReading(heartRateProcessor.recentHeartRates)

\* C32 amended: with at least 3 readings in the history and
\* batchesReceived >= 5, a batch processed with contact reports a rate
\* above 0.  If no rate could be computed from it, the exported engine
\* reports the most recent reading (readings in range) or the mean of the
\* history; the engine with the sample window reports the same value when
\* it is below 130, and else a rate above 0 that the restriction of
\* vigorous readings has not raised and may have lowered
C32_ReadingHeldOrRestricted ==
  /\ ( /\ call.returned = "result" /\ response.fingerDetected
       /\ batchesReceived >= 5 /\ Len(recentHeartRates) >= 3 ) =>
        /\ response.heartRate > 0
        /\ response.debug.calculatedRate = 0 =>
             IF heldReading(recentHeartRates) < 130
             THEN response.heartRate = heldReading(recentHeartRates)
             ELSE response.heartRate <= heldReading(recentHeartRates)
  /\ ( /\ served.requests > 0 /\ served.hrInfo.phase \notin {"none", "no_signal"}
       /\ heartRateProcessor.batchesReceived >= 5
       /\ Len(heartRateProcessor.recentHeartRates) >= 3 ) =>
        /\ served.hrInfo.heartRate > 0
        /\ served.hrInfo.debug.calculatedRate = 0 =>
             served.hrInfo.heartRate = heldReading(heartRateProcessor.recentHeartRates)

\* the exported engine could compute no rate from the sixth batch and
\* reported the mean of readings that are not in range
C32_Witness ==
  /\ served.requests >= 6 /\ served.payload = "spark"
  /\ heartRateProcessor.batchesReceived >= 5
  /\ served.hrInfo.debug.calculatedRate = 0
  /\ heartRateProcessor.recentHeartRates[1] - heartRateProcessor.recentHeartRates[2] > 15
  /\ served.hrInfo.heartRate > 0
  /\ served.hrInfo.heartRate # heartRateProcessor.recentHeartRates[1]

(***************************************************************************)
(* Properties of the initial correction                                    *)
(***************************************************************************)
\* f in percent: 15 from 130 on, 10 from 110 on, else 5
correctionPercent(r) == IF r >= 130 THEN 15 ELSE IF r >= 110 THEN 10 ELSE 5

\* round(r * f * max(0, 1 - b / 10)), the product taken exactly
roundedCorrection(r, b) ==
  LET tenths == IF b >= 10 THEN 0 ELSE 10 - b
  IN (2 * r * correctionPercent(r) * tenths + 1000) \div 2000

correctionIsTie(r, b) ==
  LET tenths == IF b >= 10 THEN 0 ELSE 10 - b
  IN (2 * r * correctionPercent(r) * tenths) % 2000 = 1000

C34_AbsorbedBatchAddsNoReading ==
  [][ (call'.returned = "result" /\ ~batchHasFinger[call'.batch]) =>
        /\ recentHeartRates' = recentHeartRates
        /\ consecutiveHighZoneReadings' = consecutiveHighZoneReadings ]_vars

\* C35: a batch without contact that leaves the finger state true leaves
\* the sample window and batchesReceived as they were; a batch that shows
\* contact is appended to the window and counted
C35_AbsorbedBatchNotTakenIn ==
  [][ call'.returned = "result" =>
        IF batchHasFinger[call'.batch]
        THEN /\ batchesReceived' = (IF isAcquiring THEN batchesReceived ELSE 0) + 1
             /\ samplesIn(sampleBuffer') =
                  mostRecent(IF isAcquiring THEN sampleBuffer ELSE <<>>,
                             Batches[call'.batch].data, 1000)
        ELSE /\ batchesReceived' = batchesReceived
             /\ sampleBuffer' = sampleBuffer
             /\ fingerDetectedState /\ fingerDetectedState' ]_vars

\* the latest batch showed no contact and was not counted; the window
\* holds the 749 samples of the three batches counted before
C35_Witness ==
  /\ call.returned = "result" /\ call.batch = "edgeLow"
  /\ batchesReceived = 3
  /\ lengthOf(sampleBuffer) = 749
  /\ response.fingerDetected
  /\ response.debug.consecutiveLowSignalBatches = 1

\* C36: a call with a batch that is null or has fewer than 100 samples
\* leaves the finger state, the counter of low batches, the sample window,
\* the batch counter, the history, the high-zone streak and the display
\* times as they were
C36_ShortBatchChangesNothing ==
  [][ ( \/ Batches[call'.batch].isNull
        \/ lengthOf(Batches[call'.batch].data) < 100 ) =>
        UNCHANGED << fingerDetectedState, consecutiveLowSignalBatches,
                     sampleBuffer, batchesReceived, recentHeartRates,
                     consecutiveHighZoneReadings, firstDisplayTime,
                     acquisitionStartTime, isAcquiring, isStable,
                     lastDisplayedHeartRate, lastDisplayedValue >> ]_vars

\* a batch of 99 samples came after the first low batch of an acquisition:
\* the finger state is still true and one low batch is still counted
C36_Witness ==
  /\ call.returned = "short" /\ call.batch = "short"
  /\ fingerDetectedState /\ consecutiveLowSignalBatches = 1
  /\ batchesReceived >= 2 /\ recentHeartRates # <<>>
  /\ response.phase = "no_signal"

(***************************************************************************)
(* Properties of the rate and the phase of a result                        *)
(***************************************************************************)
\* C37: a result with a rate above 0 says that the finger is detected and
\* its phase is stabilizing or tracking; a result in phase tracking has a
\* rate above 0
C37_RateAndPhase ==
  /\ response.heartRate > 0 =>
        /\ response.fingerDetected
        /\ response.phase \in {"stabilizing", "tracking"}
  /\ response.phase = "tracking" => response.heartRate > 0

\* a result in phase tracking whose rate is a reading held from an earlier
\* batch, and one low batch counted
C37_Witness ==
  /\ call.returned = "result"
  /\ response.phase = "tracking" /\ response.heartRate > 0
  /\ response.debug.calculatedRate = 0
  /\ consecutiveLowSignalBatches = 1

(***************************************************************************)
(* Properties of the chunked upload                                        *)
(***************************************************************************)
\* C38: the handler deletes the entry of a device only when every chunk
\* index of the upload has arrived.  A recovery session was started by a
\* chunk above 0, and a chunk 0 would have replaced it by a session that is
\* no recovery: chunk 0 has not arrived in it, so a further chunk above 0,
\* a repeated one included, leaves the entry in place
C38_CompleteOnlyWithAllChunks ==
  [][ \A device \in Devices, payload \in DOMAIN Payloads, chunk \in ChunkValues \ {Undefined, 0},
         total_chunks \in TotalValues, fsFails \in BOOLEAN :
        ( /\ activeUploads[device] # NoUpload
          /\ IF activeUploads[device] # NoUpload
             THEN activeUploads[device].filename.recovery ELSE FALSE
          /\ postSensorData(device, payload, chunk, total_chunks, clock', fsFails) )
        => activeUploads'[device] # NoUpload ]_vars

\* what the claim says of the session a request is counted in: the session
\* is new after chunk 0 or no chunk index, a recovery when a later chunk
\* finds no entry, and the entry of the device otherwise
sessionOfRequest(device, chunk, total_chunks, now) ==
  LET fresh == chunk = 0 \/ chunk = Undefined
      recovered == ~fresh /\ activeUploads[device] = NoUpload
      started == fresh \/ recovered
  IN [ started |-> started,
       filename |-> IF started THEN fileName(device, recovered, now)
                    ELSE activeUploads[device].filename,
       sessionId |-> IF started THEN now ELSE activeUploads[device].sessionId,
       received_chunks |-> IF started THEN 1
                           ELSE activeUploads[device].received_chunks + 1,
       total_chunks |-> IF ~started THEN activeUploads[device].total_chunks
                        ELSE IF total_chunks \in {Undefined, 0} THEN 1
                        ELSE total_chunks ]

\* the entry is the session with the request counted, and the file of the
\* session exists with its header, new if the session is new
entryIsSession(device, session, now) ==
  /\ session.filename \in DOMAIN files'
  /\ files'[session.filename].header = "ir_value"
  /\ activeUploads'[device] # NoUpload =>
        activeUploads'[device] =
           [ sessionId |-> session.sessionId, filename |-> session.filename,
             total_chunks |-> session.total_chunks,
             received_chunks |-> session.received_chunks, lastUpdate |-> now ]

\* the samples of the request are the last rows of the file of the session
samplesAppended(payload, session) ==
  files'[session.filename].rows =
     concatSamples(IF session.started THEN <<>> ELSE files[session.filename].rows,
                   Payloads[payload].data)

\* the entry is kept exactly when a chunk index was given and fewer chunks
\* are counted than the upload has
entryKeptWhileIncomplete(device, chunk, session) ==
  activeUploads'[device] # NoUpload
     <=> (chunk # Undefined /\ session.received_chunks < session.total_chunks)

\* C39 as stated: every well-formed request is counted in a session that
\* is new after chunk 0 or no chunk, a recovery after a later chunk without
\* an entry; afterwards the entry exists exactly when a chunk index was
\* given and received_chunks < total_chunks
C39_EntryOfRequest ==
  [][ \A device \in {served'.device}, payload \in {served'.payload},
         chunk \in ChunkValues, total_chunks \in TotalValues, fsFails \in BOOLEAN :
        ( /\ ~invalidBody(device, payload)
          /\ postSensorData(device, payload, chunk, total_chunks, clock', fsFails) )
        => LET session == sessionOfRequest(device, chunk, total_chunks, clock')
           IN /\ entryIsSession(device, session, clock')
              /\ entryKeptWhileIncomplete(device, chunk, session) ]_vars

\* C39, amended: the same of every well-formed request that is answered
\* 200, with its samples appended to the file of the session; a request
\* whose append fails is answered 500, it is counted in its session as well
\* and the entry stays whatever the count
C39_EntryOfServedRequest ==
  [][ \A device \in {served'.device}, payload \in {served'.payload},
         chunk \in ChunkValues, total_chunks \in TotalValues, fsFails \in BOOLEAN :
        ( /\ ~invalidBody(device, payload)
          /\ postSensorData(device, payload, chunk, total_chunks, clock', fsFails) )
        => LET session == sessionOfRequest(device, chunk, total_chunks, clock')
           IN /\ entryIsSession(device, session, clock')
              /\ served'.status = (IF fsFails THEN 500 ELSE 200)
              /\ IF fsFails
                 THEN activeUploads'[device] # NoUpload
                 ELSE /\ samplesAppended(payload, session)
                      /\ entryKeptWhileIncomplete(device, chunk, session) ]_vars

\* a chunk 0 of two replaced the entry the device had: the new session has
\* one chunk counted, and the file of the session it replaced is still there
C39_Witness ==
  /\ served.endpoint = "sensor-data" /\ served.status = 200
  /\ activeUploads["esp32-a"] # NoUpload
  /\ IF activeUploads["esp32-a"] # NoUpload
     THEN /\ activeUploads["esp32-a"].sessionId = clock
          /\ ~activeUploads["esp32-a"].filename.recovery
          /\ activeUploads["esp32-a"].received_chunks = 1
          /\ activeUploads["esp32-a"].total_chunks = 2
          /\ fileName("esp32-a", TRUE, clock - ServerGap) \in DOMAIN files
     ELSE FALSE
====
